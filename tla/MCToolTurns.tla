----------------------------- MODULE MCToolTurns -----------------------------
(* Ids: a plain one, a composite one, one that looks like the composite    *)
(* one in its envelope, one that only begins like an envelope, and a plain *)
(* one in an envelope nobody closed; every stored form of each.            *)
EXTENDS ToolTurns

MCPlain == {"toolu"}
MCComposite == {"call|fc"}
MCOdd == {}
MCMarked == {"ccpatch_tc1_!"}

Known == {<<"toolu", 0>>, <<"call|fc", 0>>, <<"call|fc", 1>>, <<"ccpatch_tc1_!", 0>>, <<"toolu", 1>>}
MCStored ==
  {s \in [x : Known, wire : Known \cup {<<"call|fc", 2>>, <<"ccpatch_tc1_!", 1>>, <<"toolu", 2>>}] :
     s.wire \in Stored(s.x)}

Text == [type |-> "text"]
Call(s, n) == [type |-> "tool_use", id |-> s, name |-> n]

\* No call, one call, or the composite id's call beside one like it.
MCContents ==
  {<<>>, <<Text>>}
    \cup {<<Call(s, "Bash")>> : s \in MCStored}
    \cup {<<Call(s, "Bash"), Text, Call([x |-> <<"call|fc", 0>>, wire |-> <<"call|fc", 0>>], "Read")>> :
            s \in {u \in MCStored : u.x[1] = "call|fc"}}
=============================================================================
