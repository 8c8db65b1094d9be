-------------------------- MODULE MCCandidateMerge --------------------------
(* A small instance of CandidateMerge for TLC. *)
EXTENDS CandidateMerge

CONSTANTS f, g   \* facts

Said(line)    == [idx |-> line, channel |-> "human-input", text |-> f, size |-> 1]
Fetched(line) == [idx |-> line, channel |-> "web-fetch",   text |-> g, size |-> 1]
Thought(line) == [idx |-> line, channel |-> "agent-reasoning", text |-> g, size |-> 2]
Dumped(line)  == [idx |-> line, channel |-> "tool-output", text |-> f, size |-> 3]

(* One window, one line in it; two lines; two windows of which the first   *)
(* shows what is foreign; a window of the largest size; and a span that is *)
(* larger than a window may be, between others.                            *)
MCTranscripts ==
  {<<Said(1), Fetched(1)>>, <<Said(1), Fetched(2)>>, <<Fetched(1), Thought(2)>>,
   <<Thought(1), Said(1), Said(2)>>, <<Said(1), Dumped(2), Said(3)>>}

MCNames == {<<"mesh", "mtu">>, <<"mesh", "port">>, <<"disk">>}
=============================================================================
