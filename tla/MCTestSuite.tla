----------------------------- MODULE MCTestSuite -----------------------------
(* Instances of TestSuite: which tests are compiled in, and in which order. *)
EXTENDS TestSuite, SequencesExt

MCCqEntries == 16

\* The choices of lines to comment out in test_register.c that leave at most
\* MCFew tests, or all but one: what one test leaves for another needs two.
MCFew == 3
MCChoices ==
  {c \in SUBSET DOMAIN Program :
     Cardinality(c) <= MCFew \/ Cardinality(c) >= Cardinality(DOMAIN Program) - 1}
MCInTableOrder == {SelectSeq(Registered, LAMBDA t : t \in c) : c \in MCChoices}

\* The linker may lay the table out in either direction.
MCSelections == MCInTableOrder \cup {Reverse(s) : s \in MCInTableOrder}

\* A queue that keeps up and starts at 0; or one that lags and may wrap, with
\* up to two tests, and a third between which second_stage_only, overtaking
\* the queue, leaves fault records; a fourth may read one of theirs.
MCPrompt  == {[suite |-> s, head |-> 0, lag |-> FALSE] : s \in MCSelections}
MCShort   == {s \in MCSelections : Len(s) <= 2}
MCLeaving == {s \in MCSelections : Len(s) = 3 /\ s[2] = "second_stage_only"}
               \cup {<<"iotinval", "second_stage_only", "wsi_generation", "dbg_interface">>}
MCLagging == {[suite |-> s, head |-> h, lag |-> TRUE] : s \in MCShort, h \in {0, MCCqEntries - 1}}
                \cup {[suite |-> s, head |-> 0, lag |-> TRUE] : s \in MCLeaving}
MCStarts  == MCPrompt \cup MCLagging

=============================================================================
