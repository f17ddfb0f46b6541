---------------------------- MODULE MCTableStore ----------------------------
EXTENDS TableStore

MCSchema == {{"auto"}, {"keyed"}, {"auto", "keyed"}}
MCLiterals == {<<>>, <<[key |-> 1, val |-> 1]>>}

\* Plain comparisons, and one of each other form that programs write.
MCPredicate ==
    {Compare(Col("key"), "=", Lit(1)),
     Compare(Col("key"), ">=", Lit(2)),
     Compare(Lit(2), ">", Col("key")),
     Compare(Col("key"), "=", Local(1)),
     Compare(Col("key"), "=", Global(1)),
     Negation(Compare(Col("key"), "=", Lit(1))),
     Both(Compare(Col("key"), "=", Lit(1)), Compare(Col("val"), "=", Lit(1)))}
MCRowTest == {Compare(Col("key"), "=", Lit(1))}
==============================================================================
