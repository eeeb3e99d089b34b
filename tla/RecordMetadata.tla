--------------------------- MODULE RecordMetadata ---------------------------
(***************************************************************************)
(* The metadata of one ServiceDiscoveryRecord and the JSON parsed from it, *)
(* shared by the libevent thread, which calls update_metadata, and by user *)
(* threads, which call get_metadata_json and get_metadata on a record they *)
(* got from get_services.                                                  *)
(*                                                                         *)
(* metadata_mutex covers update_metadata and the parse, but neither the    *)
(* tests get_metadata_json makes before it, nor the pointer it returns,    *)
(* nor get_metadata.  One step is one access to a field.                   *)
(***************************************************************************)
EXTENDS FiniteSets, Naturals

CONSTANTS
  Metadata,    \* metadata strings that answers carry
  NoMetadata,  \* the empty string
  Parsable,    \* those that json::parse accepts
  Reader,      \* user threads
  Writer,      \* the libevent thread
  Object,      \* addresses of heap-allocated JSON documents
  Null         \* nullptr, and the absence of a mutex holder

ASSUME ParsableAssumption == Parsable \subseteq Metadata \ {NoMetadata}
ASSUME ThreadAssumption == Writer \notin Reader /\ Null \notin Reader \cup {Writer}
ASSUME NullAssumption == Null \notin Object

Strings == Metadata \cup {NoMetadata}

VARIABLES
  metadata,      \* the string
  metadata_json, \* the address the shared_ptr holds, or Null
  content,       \* content[o]: the string the document at o was parsed from
  holder,        \* the thread that holds metadata_mutex
  writerPc,      \* where the libevent thread is in update_metadata
  incoming,      \* its argument
  pc,            \* pc[r]: where r is
  result,        \* result[r]: the pointer r's last call returned
  (* History.                                                              *)
  settled,       \* the argument of the last update_metadata to have taken effect
  seen           \* seen[r]: values of settled since r's call began

docVars    == <<metadata_json, content>>
writerVars == <<writerPc, incoming, settled>>
readerVars == <<pc, result, seen>>
vars == <<metadata, docVars, holder, writerVars, readerVars>>

Init ==
  /\ metadata = NoMetadata
  /\ metadata_json = Null
  /\ content = [o \in Object |-> NoMetadata]
  /\ holder = Null
  /\ writerPc = "idle"
  /\ incoming = NoMetadata
  /\ pc = [r \in Reader |-> "idle"]
  /\ result = [r \in Reader |-> Null]
  /\ settled = NoMetadata
  /\ seen = [r \in Reader |-> {}]

Goto(r, label) == pc' = [pc EXCEPT ![r] = label]

(* Faulty form: no lock_guard.                                             *)
MutexIgnored == TRUE

MutexFree == holder = Null

(* Faulty form: an exception leaves the mutex locked.                      *)
ReleaseUnlessThrown ==
  holder' = IF metadata \in Parsable THEN Null ELSE holder

Release == holder' = Null

-----------------------------------------------------------------------------
(* update_metadata, on the libevent thread.                                *)

CallUpdate(m) ==
  /\ writerPc = "idle"
  /\ writerPc' = "lock"
  /\ incoming' = m
  /\ UNCHANGED <<metadata, docVars, holder, settled, readerVars>>

UpdateLocks ==
  /\ writerPc = "lock"
  /\ MutexFree
  /\ holder' = Writer
  /\ writerPc' = "assign"
  /\ UNCHANGED <<metadata, docVars, incoming, settled, readerVars>>

Assign ==
  /\ writerPc = "assign"
  /\ metadata' = incoming
  /\ writerPc' = "reset"
  /\ UNCHANGED <<docVars, holder, incoming, settled, readerVars>>

(* Faulty form: the document parsed from the old string is kept.           *)
DocumentKept == metadata_json' = metadata_json

DropDocument == metadata_json' = Null

(* metadata_json = nullptr frees the document; the mutex is given back.    *)
Reset ==
  /\ writerPc = "reset"
  /\ DropDocument
  /\ settled' = metadata
  /\ seen' = [r \in Reader |-> seen[r] \cup {metadata}]
  /\ Release
  /\ writerPc' = "idle"
  /\ UNCHANGED <<metadata, content, incoming, pc, result>>

-----------------------------------------------------------------------------
(* get_metadata_json, on a user thread.                                    *)

CallGetJson(r) ==
  /\ pc[r] = "idle"
  /\ Goto(r, "empty?")
  /\ result' = [result EXCEPT ![r] = Null]
  /\ seen' = [seen EXCEPT ![r] = {settled}]
  /\ UNCHANGED <<metadata, docVars, holder, writerVars>>

(* metadata.empty(), without the mutex: Null is returned.                  *)
TestEmpty(r) ==
  /\ pc[r] = "empty?"
  /\ Goto(r, IF metadata = NoMetadata THEN "returned" ELSE "parsed?")
  /\ UNCHANGED <<metadata, docVars, holder, writerVars, result, seen>>

(* metadata_json == nullptr, without the mutex.                            *)
TestParsed(r) ==
  /\ pc[r] = "parsed?"
  /\ Goto(r, IF metadata_json = Null THEN "lock" ELSE "return")
  /\ UNCHANGED <<metadata, docVars, holder, writerVars, result, seen>>

ReaderLocks(r) ==
  /\ pc[r] = "lock"
  /\ MutexFree
  /\ holder' = r
  /\ Goto(r, "parse")
  /\ UNCHANGED <<metadata, docVars, writerVars, result, seen>>

(* The new document is allocated while the old one, if there is one, still *)
(* is; the assignment frees the old one.  json::parse may throw: then the  *)
(* call ends with the exception.  Either way the lock_guard is released.   *)
Parse(r) ==
  /\ pc[r] = "parse"
  /\ Release
  /\ \/ /\ metadata \in Parsable
        /\ \E o \in Object \ {metadata_json} :
             /\ metadata_json' = o
             /\ content' = [content EXCEPT ![o] = metadata]
        /\ Goto(r, "return")
     \/ /\ metadata \notin Parsable
        /\ Goto(r, "idle")
        /\ UNCHANGED docVars
  /\ UNCHANGED <<metadata, writerVars, result, seen>>

(* return metadata_json.get(), without the mutex.                          *)
Return(r) ==
  /\ pc[r] = "return"
  /\ result' = [result EXCEPT ![r] = metadata_json]
  /\ Goto(r, "returned")
  /\ UNCHANGED <<metadata, docVars, holder, writerVars, seen>>

(* The caller is done with the pointer.                                    *)
Forget(r) ==
  /\ pc[r] = "returned"
  /\ result' = [result EXCEPT ![r] = Null]
  /\ Goto(r, "idle")
  /\ UNCHANGED <<metadata, docVars, holder, writerVars, seen>>

-----------------------------------------------------------------------------
(* get_metadata copies the string without the mutex, character after       *)
(* character.                                                              *)

CallGet(r) ==
  /\ pc[r] = "idle"
  /\ Goto(r, "copy")
  /\ UNCHANGED <<metadata, docVars, holder, writerVars, result, seen>>

Copied(r) ==
  /\ pc[r] = "copy"
  /\ Goto(r, "idle")
  /\ UNCHANGED <<metadata, docVars, holder, writerVars, result, seen>>

-----------------------------------------------------------------------------
WriterStep == UpdateLocks \/ Assign \/ Reset

GetJsonStep(r) ==
  TestEmpty(r) \/ TestParsed(r) \/ ReaderLocks(r) \/ Parse(r) \/ Return(r)

Next ==
  \/ \E m \in Strings : CallUpdate(m)
  \/ WriterStep
  \/ \E r \in Reader : \/ CallGetJson(r) \/ GetJsonStep(r) \/ Forget(r)
                       \/ CallGet(r) \/ Copied(r)

Spec == Init /\ [][Next]_vars

(* A thread that wants metadata_mutex gets it in the end.                  *)
Fairness == SF_vars(WriterStep) /\ \A r \in Reader : SF_vars(GetJsonStep(r))

FairSpec == Spec /\ Fairness

-----------------------------------------------------------------------------
TypeOK ==
  /\ metadata \in Strings /\ incoming \in Strings /\ settled \in Strings
  /\ metadata_json \in Object \cup {Null}
  /\ content \in [Object -> Strings]
  /\ holder \in Reader \cup {Writer, Null}
  /\ writerPc \in {"idle", "lock", "assign", "reset"}
  /\ holder = Writer <=> writerPc \in {"assign", "reset"}
  /\ \A r \in Reader : holder = r <=> pc[r] = "parse"
  /\ pc \in [Reader -> {"idle", "empty?", "parsed?", "lock", "parse", "return",
                        "returned", "copy"}]
  /\ result \in [Reader -> Object \cup {Null}]
  /\ seen \in [Reader -> SUBSET Strings]

-----------------------------------------------------------------------------
(* The document cached is the one of the last metadata whose update has    *)
(* taken effect, whoever parsed it and whatever happened since it found no *)
(* document and before it had the mutex.                                   *)
CacheCoherent == metadata_json # Null => content[metadata_json] = settled

(* get_metadata_json returns a document of metadata that was the record's  *)
(* at some moment of the call, although it reads metadata_json again after *)
(* it gave the mutex back.                                                 *)
ReturnsCurrentJson ==
  [][\A r \in Reader :
       (pc[r] = "return" /\ pc'[r] = "returned" /\ result'[r] # Null)
         => content[result'[r]] \in seen[r]]_vars

(* A call of get_metadata_json ends, also when json::parse throws while    *)
(* the mutex is held.                                                      *)
CallEnds == \A r \in Reader : (pc[r] = "empty?") ~> (pc[r] \in {"returned", "idle"})

(* An update takes effect.                                                 *)
UpdateEnds == (writerPc # "idle") ~> (writerPc = "idle")

-----------------------------------------------------------------------------
(* What comments of the source promise and the code does not do.           *)

(* ServiceDiscoveryRecord.cpp:80, "If the metadata string is empty, return *)
(* nullptr", and :93, "Return the metadata_json variable": a call during   *)
(* which the metadata is never empty does not return nullptr.              *)
NullOnlyWhenEmpty ==
  [][\A r \in Reader :
       (pc[r] = "return" /\ pc'[r] = "returned" /\ NoMetadata \notin seen[r])
         => result'[r] # Null]_vars
=============================================================================
