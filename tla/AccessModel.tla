---------------------------- MODULE AccessModel ----------------------------
(***************************************************************************)
(* Who may read and write a row of the table `memory`: the two layers of   *)
(* the code, as predicates over an agent and a row.                        *)
(*                                                                         *)
(*   - the row-level security policies mem_sel and mem_upd of the          *)
(*     database (migrations 0020, 0025, 0035), which see the caller only   *)
(*     through the context db() stamps on the connection;                  *)
(*   - the WHERE clause the API adds to its own reads (mem_read_where).    *)
(*                                                                         *)
(* A row is a record with at least the fields author, share, sens, readers *)
(* (the database columns author_body, share_status, sensitivity, readers)  *)
(* and live, ttl (deleted_at IS NULL; expires_at against now()).           *)
(***************************************************************************)
EXTENDS Naturals

CONSTANTS
  Agents,        \* rows of the table agent
  Role,          \* agent.role
  GroupsOf,      \* access_scope.groups
  SeeAll,        \* agents whose access_scope.see_all is true
  PersonalOnly,  \* agents whose access_scope.personal_only is true
  RLS            \* TRUE: the API connects as the non-owner role brain_app

(* The roles the CHECK of agent.role admits.  The policies also name a role *)
(* "organizer" that no agent can have.                                      *)
Roles == {"manager", "approver", "worker", "viewer", "readonly"}

Sensitivities == {"public", "normal", "sensitive", "secret"}

(* A reader token is the name of an agent or of a group. *)
GroupTokens == {"common", "managers"}
ReaderTokens == Agents \cup GroupTokens

ASSUME AccessAssumption ==
  /\ Role \in [Agents -> Roles]
  /\ GroupsOf \in [Agents -> SUBSET GroupTokens]
  /\ SeeAll \subseteq Agents
  /\ PersonalOnly \subseteq Agents
  /\ RLS \in BOOLEAN

Managers  == {a \in Agents : Role[a] = "manager"}
Reviewers == {a \in Agents : Role[a] \in {"manager", "approver"}}

-----------------------------------------------------------------------------
(* Sensitivity and the ceiling of each role (the table access_config). *)

SensRank(s) ==
  CASE s = "public"    -> 0
    [] s = "normal"    -> 1
    [] s = "sensitive" -> 2
    [] OTHER           -> 3

MaxSensitivity(role) ==
  CASE role \in {"manager", "approver"} -> "secret"
    [] role = "organizer"               -> "sensitive"
    [] OTHER                            -> "normal"

WithinCeiling(role, row) == SensRank(row.sens) <= SensRank(MaxSensitivity(role))

(* The readers a trusted note gets when nobody names any. *)
DefaultReaders(sens, share) ==
  CASE share = "trusted" /\ sens \in {"sensitive", "secret"} -> {"managers"}
    [] share = "trusted" /\ sens \in {"public", "normal"}     -> {"common"}
    [] OTHER                                                  -> {}

-----------------------------------------------------------------------------
(* The database policies. *)

(* Mutant: the author is not looked at. *)
Unshared(a, row) == row.share \in {"personal", "ready_to_share"}

OwnUnshared(a, row) ==
  /\ row.author = a
  /\ row.share \in {"personal", "ready_to_share"}

MemSel(a, row) ==
  \/ a \in SeeAll
  \/ OwnUnshared(a, row)
  \/ /\ row.share = "trusted"
     /\ WithinCeiling(Role[a], row)
     /\ a \in row.readers \/ row.readers \cap GroupsOf[a] # {}
  \/ /\ Role[a] = "organizer"
     /\ row.share \in {"trusted", "ready_to_share"}
     /\ WithinCeiling("organizer", row)

(* Mutant: an author may update its note whatever became of it. *)
MemUpdByAuthor(a, row) == a \in Reviewers \/ row.author = a

(* USING and WITH CHECK of the policy are the same expression. *)
MemUpd(a, row) ==
  \/ a \in Reviewers
  \/ OwnUnshared(a, row)

(* What a SELECT of agent a can return, and what an UPDATE of agent a can  *)
(* match: an UPDATE with a WHERE clause needs both policies to hold.       *)
Selectable(a, row) == RLS => MemSel(a, row)
Updatable(a, row)  == RLS => MemSel(a, row) /\ MemUpd(a, row)

-----------------------------------------------------------------------------
(* The API's own read gate. *)

TrustedScopeGate(a, row) ==
  /\ WithinCeiling(Role[a], row)
  /\ row.readers \cap GroupsOf[a] # {}

(* deleted_at IS NULL and not expired: the base of every recall filter. *)
Current(row) == row.live /\ row.ttl # "lapsed"

MemReadWhere(a, row) ==
  /\ Current(row)
  /\ IF a \in PersonalOnly
     THEN OwnUnshared(a, row)
     ELSE IF a \in SeeAll
     THEN row.share \in {"trusted", "personal"}
     ELSE IF a \in Managers
     THEN \/ row.share = "trusted" /\ TrustedScopeGate(a, row)
          \/ row.share = "personal" /\ row.author = a
          \/ row.share = "ready_to_share" /\ row.author \in Managers
     ELSE \/ row.share = "trusted" /\ TrustedScopeGate(a, row)
          \/ OwnUnshared(a, row)
=============================================================================
