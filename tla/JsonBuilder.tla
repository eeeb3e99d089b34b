----------------------------- MODULE JsonBuilder -----------------------------
(***************************************************************************)
(* The metadata document of a service, which JsonBuilder::set changes      *)
(* level by level on a user thread while the heartbeat thread may dump it. *)
(*                                                                         *)
(* A document maps the path of each of its nodes to what the node is; the  *)
(* root has the empty path.  Arrays, numbers and strings are all Scalar:   *)
(* a key cannot index any of them.  A dump that falls between two steps    *)
(* reads doc as it is; one that overlaps a step is RaceCrash.              *)
(***************************************************************************)
EXTENDS Naturals, Sequences, SequencesExt

CONSTANTS
  Part,    \* what is between the slashes of a key
  Empty,   \* the empty part, as in "/a", "a//b" or "a/"
  Scalar,  \* values without members
  Input,   \* keys given to set, as the sequence of their parts
  Value    \* documents given to set

EmptyObject == [root \in {<<>>} |-> "object"]
Null == [root \in {<<>>} |-> "null"]

Above(p) == {SubSeq(p, 1, n) : n \in 0 .. Len(p) - 1}
Rest(p, q) == SubSeq(q, Len(p) + 1, Len(q))  \* the way from p on to q

IsDocument(d) ==
  /\ DOMAIN d \subseteq Seq(Part)
  /\ <<>> \in DOMAIN d
  /\ d \in [DOMAIN d -> Scalar \cup {"object", "null"}]
  /\ \A q \in DOMAIN d : \A p \in Above(q) : p \in DOMAIN d /\ d[p] = "object"

ASSUME EmptyAssumption == Empty \in Part
ASSUME ScalarAssumption == "object" \notin Scalar /\ "null" \notin Scalar
ASSUME InputAssumption == Input \subseteq Seq(Part) \ {<<>>}
ASSUME ValueAssumption == \A v \in Value : IsDocument(v)

VARIABLES
  alive,  \* FALSE once the process has been terminated
  doc,    \* m_json_object
  pc,     \* where set_multilevel_key is
  key,    \* key_parts
  value,  \* the value to be set
  i,      \* parts of the key that current_level has descended
  before  \* history: doc when set was called

vars == <<alive, doc, pc, key, value, i, before>>

Init ==
  /\ alive = TRUE
  /\ doc = Null
  /\ pc = "idle"
  /\ key = <<>> /\ value = Null /\ i = 0
  /\ before = Null

(* split_string: getline finds no token behind a slash at the end.         *)
Split(input) == IF Last(input) = Empty THEN Front(input) ELSE input

-----------------------------------------------------------------------------
Call(input, v) ==
  /\ alive
  /\ pc = "idle"
  /\ pc' = IF Split(input) = <<>> THEN "idle" ELSE "index"
  /\ key' = Split(input)
  /\ value' = v
  /\ i' = 0
  /\ before' = doc
  /\ UNCHANGED <<alive, doc>>

At == SubSeq(key, 1, i)         \* *current_level
Child == SubSeq(key, 1, i + 1)  \* (*current_level)[key_part]
LastPart == i + 1 = Len(key)

(* operator[] on an object or on null, which becomes an object.            *)
Indexed(d, p, c) ==
  [q \in DOMAIN d \cup {c} |->
     IF q = p THEN "object" ELSE IF q \in DOMAIN d THEN d[q] ELSE "null"]

(* Faulty forms: what was below stays; the value replaces the whole level. *)
GraftMerged(d, p, v) ==
  [q \in DOMAIN d \cup {p \o r : r \in DOMAIN v} |->
     IF IsPrefix(p, q) /\ Rest(p, q) \in DOMAIN v THEN v[Rest(p, q)] ELSE d[q]]

GraftLevel(d, p, v) ==
  [q \in {q \in DOMAIN d : ~IsStrictPrefix(Front(p), q)}
           \cup {p \o r : r \in DOMAIN v} |->
     IF IsPrefix(p, q) THEN v[Rest(p, q)] ELSE d[q]]

(* The node at p is assigned v: all that was below it is gone.             *)
Graft(d, p, v) ==
  [q \in {q \in DOMAIN d : ~IsPrefix(p, q)} \cup {p \o r : r \in DOMAIN v} |->
     IF IsPrefix(p, q) THEN v[Rest(p, q)] ELSE d[q]]

(* Faulty form: find's answer is ignored.                                  *)
ToAssignAlways == TRUE

(* An assignment follows if the key part is the last or has not been found.*)
ToAssign == LastPart \/ Child \notin DOMAIN doc

Index ==
  /\ alive
  /\ pc = "index"
  /\ doc[At] \notin Scalar
  /\ doc' = Indexed(doc, At, Child)
  /\ IF ToAssign THEN pc' = "assign" /\ i' = i
                 ELSE pc' = "index" /\ i' = i + 1
  /\ UNCHANGED <<alive, key, value, before>>

(* operator[] throws on anything else; set does not catch it.              *)
Throw ==
  /\ alive
  /\ pc = "index"
  /\ doc[At] \in Scalar
  /\ pc' = "idle"
  /\ UNCHANGED <<alive, doc, key, value, i, before>>

(* Faulty form: a level that is missing becomes an empty string or array.  *)
NewLevelScalar == [root \in {<<>>} |-> CHOOSE x \in Scalar : TRUE]

NewLevel == EmptyObject

Assign ==
  /\ alive
  /\ pc = "assign"
  /\ doc' = Graft(doc, Child, IF LastPart THEN value ELSE NewLevel)
  /\ IF LastPart THEN pc' = "idle" /\ i' = i
                 ELSE pc' = "index" /\ i' = i + 1
  /\ UNCHANGED <<alive, key, value, before>>

(* send_presence dumps the document while it is being changed.             *)
RaceCrash ==
  /\ alive
  /\ pc \in {"index", "assign"}
  /\ alive' = FALSE
  /\ UNCHANGED <<doc, pc, key, value, i, before>>

Next ==
  \/ \E input \in Input, v \in Value : Call(input, v)
  \/ Index \/ Throw \/ Assign \/ RaceCrash

Spec == Init /\ [][Next]_vars

-----------------------------------------------------------------------------
(* The document is a tree at every step: what is dumped is a document.     *)
TypeOK ==
  /\ alive \in BOOLEAN
  /\ IsDocument(doc) /\ IsDocument(before) /\ IsDocument(value)
  /\ pc \in {"idle", "index", "assign"}
  /\ key \in Seq(Part)
  /\ i \in Nat
  /\ pc # "idle" => i < Len(key) /\ At \in DOMAIN doc
  /\ pc = "assign" => Child \in DOMAIN doc

(* What "a/b/c" := v means: the nodes above are objects, the node has the  *)
(* value, and every other node is as it was.                               *)
WithValue(d, p, v) ==
  [q \in {q \in DOMAIN d : ~IsPrefix(p, q)} \cup Above(p)
           \cup {p \o r : r \in DOMAIN v} |->
     IF IsPrefix(p, q) THEN v[Rest(p, q)]
     ELSE IF q \in Above(p) THEN "object" ELSE d[q]]

(* A call that returns has set the value and changed nothing else, however *)
(* many levels it found, created, or turned from null into objects.        *)
SetsExactly ==
  [][(pc = "assign" /\ pc' = "idle") => (doc' = WithValue(before, key, value))]_vars

(* A call that throws has changed nothing, although it creates levels on   *)
(* its way; and it throws only because of a value above the key.           *)
ThrowsUnchanged ==
  [][(pc = "index" /\ pc' = "idle") =>
       /\ doc' = before
       /\ \E p \in Above(key) \cap DOMAIN before : before[p] \in Scalar]_vars

(* While a call is under way, a presence shows every node as it was before *)
(* the call, the one about to be set included, and besides at most the way *)
(* to the key: new levels, and nulls that have become objects.             *)
KeepsOthers ==
  pc # "idle" =>
    /\ \A q \in DOMAIN before :
         /\ q \in DOMAIN doc
         /\ doc[q] # before[q] => before[q] = "null" /\ q \in Above(key)
    /\ \A q \in DOMAIN doc \ DOMAIN before : IsPrefix(q, key)
=============================================================================
