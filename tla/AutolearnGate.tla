--------------------------- MODULE AutolearnGate ---------------------------
(***************************************************************************)
(* The deterministic gate between what a language model extracted from a   *)
(* session and the store: where a capture's content came from, whether it  *)
(* may be trusted, whether it needs a human, whether it may land as its    *)
(* author's personal note.  Pure operators; no model has a vote here.      *)
(*                                                                         *)
(* A capture is a record                                                   *)
(*   spans     the kinds of transcript spans it cites,                     *)
(*   laundered whether its text repeats a span that came from outside:     *)
(*             "no", "here" (in the window it was extracted from) or       *)
(*             "elsewhere" (in another window of the same session),        *)
(*   private   whether a medical or financial term occurs in it,           *)
(*   said      the sensitivity the client claims, or None,                 *)
(*   sourced   whether the session it comes from is known.                 *)
(***************************************************************************)
EXTENDS AccessModel

CONSTANTS
  LandQuarantined,  \* AUTOLEARN_LAND_QUARANTINED
  LandSensitive,    \* AUTOLEARN_LAND_SENSITIVE
  None              \* SQL NULL, and a field a request leaves out

ASSUME GateAssumption ==
  /\ LandQuarantined \in BOOLEAN
  /\ LandSensitive \in BOOLEAN
  /\ None \notin Sensitivities

OrNone(S) == S \cup {None}

-----------------------------------------------------------------------------
(* Provenance. *)

Channels == {"human-input", "agent-reasoning", "web-fetch", "tool-output",
             "file-read", "unknown"}
FirstParty == {"human-input", "agent-reasoning"}

(* The kinds of blocks of a transcript that give a span: what the operator *)
(* typed, what the harness put into a user line, what the assistant wrote, *)
(* and the results of tools.                                               *)
SpanKinds == {"typed", "meta", "assistant", "web", "file", "command"}

(* tag_transcript and channel_for_tool. *)
ChannelOf(span) ==
  CASE span = "typed"     -> "human-input"
    [] span = "assistant" -> "agent-reasoning"
    [] span = "web"       -> "web-fetch"
    [] span = "file"      -> "file-read"
    [] OTHER              -> "tool-output"

Cited(c) == {ChannelOf(s) : s \in c.spans}

(* Mutant: one first-party channel is enough. *)
TrustForSomeChannel(channels) ==
  IF channels \cap FirstParty # {} THEN "trusted" ELSE "quarantined"

TrustForChannels(channels) ==
  IF channels # {} /\ channels \subseteq FirstParty THEN "trusted" ELSE "quarantined"

(* assess, at extraction: the spans of the capture's own window are the    *)
(* ones its text is compared with.                                         *)
Assessed(c) ==
  IF c.laundered = "here" THEN "quarantined" ELSE TrustForChannels(Cited(c))

(* The server trusts its own verdict and the pipeline's, or neither. *)
EffectiveTrust(c) ==
  IF TrustForChannels(Cited(c)) = "trusted" /\ Assessed(c) = "trusted"
  THEN "trusted" ELSE "quarantined"

Corroborated(c) == Cited(c) \cap FirstParty # {}

SensitivityOf(c) ==
  CASE c.private                    -> "sensitive"
    [] ~c.private /\ c.said # None -> c.said
    [] OTHER                        -> "normal"

Private(sens) == sens \in {"sensitive", "secret"}

-----------------------------------------------------------------------------
(* The decision.  verdict is the conflict check's ("clear", "skip_dup",    *)
(* "conflict"), lesson the severity of a lesson that matches, or "none".   *)

Reasons(c, verdict, lesson) ==
  {r \in {"lesson", "untrusted", "sensitive", "conflict", "uncorroborated"} :
     CASE r = "lesson"    -> lesson # "none"
       [] r = "untrusted" -> EffectiveTrust(c) # "trusted"
       [] r = "sensitive" -> Private(SensitivityOf(c))
       [] r = "conflict"  -> verdict = "conflict"
       [] OTHER           -> ~Corroborated(c)}

DecideOne(c, verdict, lesson) ==
  CASE verdict = "skip_dup"                                        -> "skip"
    [] verdict # "skip_dup" /\ lesson = "critical"                 -> "drop"
    [] verdict # "skip_dup" /\ Reasons(c, verdict, lesson) = {}    -> "auto_keep"
    [] OTHER                                                       -> "escalate"

(* What keeps a capture from landing without a human. *)
Blocking(allowSupersede) ==
  {"sensitive", "conflict"}
    \ ((IF LandSensitive THEN {"sensitive"} ELSE {})
         \cup (IF allowSupersede THEN {"conflict"} ELSE {}))

LandsPersonal(c, verdict, lesson, sameName, allowSupersede) ==
  /\ DecideOne(c, verdict, lesson) \notin {"skip", "drop"}
  /\ c.sourced
  /\ sameName => allowSupersede
  /\ lesson = "none"
  /\ Blocking(allowSupersede) \cap Reasons(c, verdict, lesson) = {}

(* The last part of _ingest_candidates: land, queue or reject. *)
Lands(c, verdict, lesson, sameName, allowSupersede) ==
  IF LandQuarantined
  THEN LandsPersonal(c, verdict, lesson, sameName, allowSupersede)
  ELSE DecideOne(c, verdict, lesson) = "auto_keep" /\ c.sourced /\ ~sameName
=============================================================================
