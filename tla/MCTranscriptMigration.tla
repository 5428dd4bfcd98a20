----------------------- MODULE MCTranscriptMigration -----------------------
(* Two transcripts: one whose rows name the same legacy call in every place, *)
(* and one that may hold a row that does not parse.                          *)
EXTENDS TranscriptMigration, TLC

Legacy == <<"call_1|fc_1", 0>>
Field(place) == [place |-> place, id |-> Legacy]
Row(fields) == [parses |-> TRUE, fields |-> fields]

Use == Row(<<Field("tool_use")>>)
Result == Row(<<Field("tool_result"), Field("toolUseID"), Field("attachment")>>)
Quote == Row(<<Field("text")>>)
Torn == [parses |-> FALSE, fields |-> <<>>]

TwoFiles == <<"s1", "s2">>
SomeRows == [f \in {"s1", "s2"} |->
               IF f = "s1" THEN {<<Use, Result>>} ELSE {<<Torn>>, <<Quote, Use>>}]
AppendedRows == [f \in {"s1", "s2"} |-> IF f = "s1" THEN {Use} ELSE {}]
SomeNatures == [f \in {"s1", "s2"} |->
                  IF f = "s1" THEN {"own"} ELSE {"own", "foreign", "linked"}]
=============================================================================
