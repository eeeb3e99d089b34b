------------------------ MODULE RecordMetadataProofs ------------------------
(***************************************************************************)
(* The metadata cache is coherent for every set of metadata strings, user  *)
(* threads and addresses.                                                  *)
(***************************************************************************)
EXTENDS RecordMetadata, TLAPS

(* Outside the mutex, and until the libevent thread assigns, the string is *)
(* the one last settled.                                                   *)
SettledInv == writerPc # "reset" => settled = metadata

(* A call in progress has seen the metadata now settled.                   *)
SeenInv ==
  \A r \in Reader :
    pc[r] \in {"empty?", "parsed?", "lock", "parse", "return"} =>
      settled \in seen[r]

IInv == TypeOK /\ SettledInv /\ SeenInv /\ CacheCoherent

LEMMA InvInit == Init => IInv
BY ThreadAssumption, NullAssumption
   DEF Init, IInv, TypeOK, SettledInv, SeenInv, CacheCoherent, Strings

LEMMA TypeStep == TypeOK /\ [Next]_vars => TypeOK'
<1> SUFFICES ASSUME TypeOK, [Next]_vars PROVE TypeOK'
  OBVIOUS
<1> USE ThreadAssumption DEF TypeOK, Strings, docVars, writerVars, readerVars
<1>1. CASE \E m \in Strings : CallUpdate(m)
  BY <1>1 DEF CallUpdate
<1>2. CASE UpdateLocks
  BY <1>2 DEF UpdateLocks, MutexFree
<1>3. CASE Assign
  BY <1>3 DEF Assign
<1>4. CASE Reset
  BY <1>4 DEF Reset, DropDocument, Release
<1>5. ASSUME NEW r \in Reader,
             CallGetJson(r) \/ TestEmpty(r) \/ TestParsed(r) \/ Return(r)
               \/ Forget(r) \/ CallGet(r) \/ Copied(r)
      PROVE  TypeOK'
  BY <1>5 DEF CallGetJson, TestEmpty, TestParsed, Return, Forget, CallGet,
              Copied, Goto
<1>6. ASSUME NEW r \in Reader, ReaderLocks(r)
      PROVE  TypeOK'
  BY <1>6 DEF ReaderLocks, MutexFree, Goto
<1>7. ASSUME NEW r \in Reader, Parse(r)
      PROVE  TypeOK'
  BY <1>7 DEF Parse, Release, Goto
<1>8. CASE UNCHANGED vars
  BY <1>8 DEF vars
<1> QED
  BY <1>1, <1>2, <1>3, <1>4, <1>5, <1>6, <1>7, <1>8
     DEF Next, WriterStep, GetJsonStep

LEMMA InvStep == IInv /\ [Next]_vars => IInv'
<1> SUFFICES ASSUME IInv, [Next]_vars PROVE IInv'
  OBVIOUS
<1>1. TypeOK'
  BY TypeStep DEF IInv
<1>2. SettledInv'
  BY ThreadAssumption
     DEF IInv, SettledInv, TypeOK, Next, WriterStep, GetJsonStep, vars, docVars,
         writerVars, readerVars, CallUpdate, UpdateLocks, Assign, Reset,
         CallGetJson, TestEmpty, TestParsed, ReaderLocks, Parse, Return, Forget,
         CallGet, Copied
<1>3. SeenInv'
  <2>1. CASE UNCHANGED <<readerVars, settled>>
    BY <2>1 DEF IInv, SeenInv, readerVars
  <2>2. CASE Reset
    BY <2>2 DEF IInv, TypeOK, SeenInv, SettledInv, Reset
  <2>3. ASSUME NEW r \in Reader,
               CallGetJson(r) \/ GetJsonStep(r) \/ Forget(r) \/ CallGet(r)
                 \/ Copied(r)
        PROVE  SeenInv'
    BY <2>3
       DEF IInv, TypeOK, SeenInv, writerVars, GetJsonStep, CallGetJson, TestEmpty,
           TestParsed, ReaderLocks, Parse, Return, Forget, CallGet, Copied, Goto
  <2> QED
    BY <2>1, <2>2, <2>3
       DEF Next, WriterStep, CallUpdate, UpdateLocks, Assign, vars, writerVars
<1>4. CacheCoherent'
  <2>1. CASE UNCHANGED <<docVars, settled>>
    BY <2>1 DEF IInv, CacheCoherent, docVars
  <2>2. CASE Reset
    BY <2>2 DEF CacheCoherent, Reset, DropDocument
  <2>3. ASSUME NEW r \in Reader, Parse(r)
        PROVE  CacheCoherent'
    <3>1. settled = metadata
      BY <2>3, ThreadAssumption DEF IInv, TypeOK, SettledInv, Parse
    <3> QED
      BY <2>3, <3>1, NullAssumption
         DEF IInv, TypeOK, CacheCoherent, Parse, docVars, writerVars
  <2> QED
    BY <2>1, <2>2, <2>3
       DEF Next, WriterStep, GetJsonStep, CallUpdate, UpdateLocks, Assign,
           CallGetJson, TestEmpty, TestParsed, ReaderLocks, Return, Forget,
           CallGet, Copied, vars, writerVars
<1> QED
  BY <1>1, <1>2, <1>3, <1>4 DEF IInv

LEMMA Invariance == Spec => []IInv
BY InvInit, InvStep, PTL DEF Spec

(* Every variable keeps its type, and metadata_mutex has one holder: the   *)
(* updater between its lock and its release, or the reader that parses.    *)
THEOREM TypeCorrect == Spec => []TypeOK
BY Invariance, PTL DEF IInv

(* Whoever parses it, and however late, the document cached is that of the *)
(* metadata last settled.                                                  *)
THEOREM CacheIsCoherent == Spec => []CacheCoherent
BY Invariance, PTL DEF IInv

(* A pointer get_metadata_json returns is, when it is returned, that of a  *)
(* document of metadata the record had during the call.                    *)
THEOREM JsonIsCurrent == Spec => ReturnsCurrentJson
<1>1. IInv /\ [Next]_vars =>
        [\A r \in Reader :
           (pc[r] = "return" /\ pc'[r] = "returned" /\ result'[r] # Null)
             => content[result'[r]] \in seen[r]]_vars
  <2> SUFFICES ASSUME IInv, [Next]_vars, NEW r \in Reader,
                      pc[r] = "return", pc'[r] = "returned", result'[r] # Null
               PROVE  content[result'[r]] \in seen[r]
    OBVIOUS
  <2>1. Return(r)
    BY DEF IInv, TypeOK, Next, WriterStep, GetJsonStep, vars, docVars, writerVars,
           readerVars, CallUpdate, UpdateLocks, Assign, Reset, CallGetJson,
           TestEmpty, TestParsed, ReaderLocks, Parse, Return, Forget, CallGet,
           Copied, Goto
  <2> QED
    BY <2>1 DEF Return, IInv, TypeOK, CacheCoherent, SeenInv
<1> QED
  BY <1>1, Invariance, PTL DEF Spec, ReturnsCurrentJson
=============================================================================
