---------------------------- MODULE SessionStore ---------------------------
(***************************************************************************)
(* The session store (session_persistence.go and                           *)
(* native_session_persistence.go): an index of at most MaxSessions         *)
(* sessions, most recently updated first, and one snapshot file per        *)
(* session with its transcript.                                            *)
(*                                                                         *)
(* Every operation holds the store's mutex, changes memory, then writes    *)
(* the snapshot, then evicts the oldest sessions and writes the index.     *)
(* Each file operation can fail, and TL Studio can stop between any two,   *)
(* so these are steps of their own; the writer's pc is the mutex.          *)
(* The clock that orders the sessions is taken to advance between writes.  *)
(***************************************************************************)
EXTENDS Naturals, SequencesExt

CONSTANTS
  Sessions, NoSession,
  MaxSessions,      \* maxPersistedSessions
  MaxMessages,      \* maxPersistedMessages
  MaxBytes,         \* maxSessionSnapshotBytes, in the unit of Sizes
  Sizes,            \* what a message can weigh in the snapshot
  MaxWrites         \* bound on the messages written in a behaviour

ASSUME SessionAssumption == NoSession \notin Sessions
ASSUME CapAssumption == /\ MaxSessions \in Nat \ {0} /\ MaxMessages \in Nat \ {0}
                        /\ MaxBytes \in Nat /\ Sizes \subseteq Nat /\ MaxWrites \in Nat

VARIABLES
  loaded, memory,   \* the loaded flag; the sessions in memory, newest first
  known,            \* those a command of this process has found in memory
  index,            \* index.json: [torn, sessions]
  snapshot,         \* [Sessions -> [state, messages]]: the snapshot files
  writer,           \* the operation that holds the mutex
  writes,           \* messages written so far; the identity of the next one
  created,          \* the sessions whose identity was drawn, never drawn again
  \* history, read by the properties only
  kept,             \* sessions whose last write was acknowledged, not removed or evicted
  last,             \* [Sessions -> Nat]: the last message acknowledged for each
  gone,             \* sessions whose removal was acknowledged, not written since
  forgot,           \* whether an index was not read
  disturbed         \* whether a file operation failed or was cut short

files == <<index, snapshot>>
history == <<kept, last, gone, forgot>>
vars == <<loaded, memory, known, index, snapshot, writer, writes, created,
          kept, last, gone, forgot, disturbed>>

Free == [at |-> "free", kind |-> "none", session |-> NoSession, messages |-> <<>>, id |-> 0]
NoFile == [state |-> "none", messages |-> <<>>]
TornFile == [state |-> "torn", messages |-> <<>>]

Init == /\ loaded = FALSE /\ memory = <<>> /\ known = {}
        /\ index = [torn |-> FALSE, sessions |-> <<>>]
        /\ snapshot = [s \in Sessions |-> NoFile]
        /\ writer = Free
        /\ writes = 0 /\ created = {}
        /\ kept = {} /\ last = [s \in Sessions |-> 0] /\ gone = {}
        /\ forgot = FALSE /\ disturbed = FALSE

-----------------------------------------------------------------------------
(* loadLocked, at the head of every operation.                             *)

\* The flag is set before the index is read: a read that fails is reported to
\* that operation only, and the store goes on empty.
FailedLoad == /\ writer.at = "free" /\ ~loaded
              /\ loaded' = TRUE /\ memory' = <<>>
              /\ forgot' = TRUE /\ disturbed' = TRUE
              /\ UNCHANGED <<known, files, writer, writes, created, kept, last, gone>>

LoadedMemory == IF loaded THEN memory ELSE index.sessions
Loads == /\ loaded \/ ~index.torn
         /\ loaded' = TRUE

\* list, getSession, getMessages and getChanges change nothing else.
Read == /\ writer.at = "free" /\ ~loaded
        /\ Loads /\ memory' = LoadedMemory
        /\ known' = known \cup ToSet(memory')
        /\ UNCHANGED <<files, writer, writes, created, history, disturbed>>

-----------------------------------------------------------------------------
(* Operations that write a session.                                        *)

\* UpdatedAt becomes the current time.  (memory is a map: it lists a session once)
NewestMutant(s, list) == RemoveFirst(list, s) \o <<s>>   \* sorted the other way round
Newest(s, list) == <<s>> \o RemoveFirst(list, s)

\* sanitizePersistedMessages keeps the last MaxMessages.
Latest(messages) == IF Len(messages) > MaxMessages
                    THEN SubSeq(messages, Len(messages) - MaxMessages + 1, Len(messages))
                    ELSE messages

\* Memory lists the session before its snapshot is read; no snapshot is an
\* empty one, and one that cannot be read ends the operation.
Open(s, appended, id) ==
  /\ Loads
  /\ memory' = Newest(s, LoadedMemory)
  /\ known' = known \cup ToSet(memory')
  /\ gone' = gone \ {s}
  /\ \/ /\ snapshot[s].state # "torn"
        /\ writer' = [at |-> "trim", kind |-> "save", session |-> s, id |-> id,
                      messages |-> Latest(snapshot[s].messages \o appended)]
        /\ UNCHANGED disturbed
     \/ /\ snapshot[s].state # "none"
        /\ disturbed' = TRUE
        /\ UNCHANGED writer
  /\ UNCHANGED <<files, kept, last, forgot>>

\* createNativeSession draws an identity and calls upsertSession.
Create(s) == /\ writer.at = "free" /\ s \notin created
             /\ created' = created \cup {s}
             /\ Open(s, <<>>, 0)
             /\ UNCHANGED writes

\* A message is appended, to a session that may have been removed or evicted
\* since its run was accepted.
AppendMessage(s, size) ==
  /\ writer.at = "free" /\ s \in known
  /\ writes < MaxWrites
  /\ writes' = writes + 1
  /\ Open(s, <<[id |-> writes', size |-> size]>>, writes')
  /\ UNCHANGED created
RecordAcceptedRun(s, size) == AppendMessage(s, size)   \* the user's message
PutNativeMessage(s, size) == AppendMessage(s, size)    \* a round or an ending of a run

\* The same, without a message.
Touch(s) == /\ writer.at = "free"
            /\ Open(s, <<>>, 0)
            /\ UNCHANGED <<writes, created>>
MarkSessionExecution(s) == s \in known /\ Touch(s)
UpdateTitle(s) == Contains(LoadedMemory, s) /\ Touch(s)

\* remove: the session leaves memory and its snapshot the disk; an error of the
\* latter is ignored.
RemoveSessionMutant(s) ==      \* the index is not written
  /\ writer.at = "free" /\ s \in known
  /\ Loads /\ memory' = RemoveFirst(LoadedMemory, s)
  /\ snapshot' = [snapshot EXCEPT ![s] = NoFile]
  /\ gone' = gone \cup {s}
  /\ kept' = kept \ {s} /\ last' = [last EXCEPT ![s] = 0]
  /\ UNCHANGED <<known, index, writer, writes, created, forgot, disturbed>>
RemoveSession(s) ==
  /\ writer.at = "free" /\ s \in known
  /\ Loads /\ memory' = RemoveFirst(LoadedMemory, s)
  /\ \/ snapshot' = [snapshot EXCEPT ![s] = NoFile] /\ UNCHANGED disturbed
     \/ UNCHANGED snapshot /\ disturbed' = TRUE
  /\ writer' = [Free EXCEPT !.at = "evict", !.kind = "remove", !.session = s]
  /\ kept' = kept \ {s} /\ last' = [last EXCEPT ![s] = 0]
  /\ UNCHANGED <<known, index, writes, created, gone, forgot>>

-----------------------------------------------------------------------------
(* The rest of the operation, with the mutex held.                         *)

Weight(messages) == FoldLeft(LAMBDA n, m : n + m.size, 0, messages)
TooHeavy(messages) == Len(messages) > 1 /\ Weight(messages) > MaxBytes

\* saveSnapshotLocked: one iteration drops a quarter of the messages, which is
\* none of two or three.
TrimOnceMutant ==              \* if in place of for
  /\ writer.at = "trim"
  /\ writer' = [writer EXCEPT !.at = "write",
                  !.messages = IF TooHeavy(@) THEN SubSeq(@, Len(@) \div 4 + 1, Len(@)) ELSE @]
  /\ UNCHANGED <<loaded, memory, known, files, writes, created, history, disturbed>>
TrimEighthMutant ==            \* an eighth, so that up to seven messages hang it
  /\ writer.at = "trim"
  /\ writer' = IF TooHeavy(writer.messages)
               THEN [writer EXCEPT !.messages = SubSeq(@, Len(@) \div 8 + 1, Len(@))]
               ELSE [writer EXCEPT !.at = "write"]
  /\ UNCHANGED <<loaded, memory, known, files, writes, created, history, disturbed>>
Trim ==
  /\ writer.at = "trim"
  /\ writer' = IF TooHeavy(writer.messages)
               THEN [writer EXCEPT !.messages = SubSeq(@, Len(@) \div 4 + 1, Len(@))]
               ELSE [writer EXCEPT !.at = "write"]
  /\ UNCHANGED <<loaded, memory, known, files, writes, created, history, disturbed>>

\* writePrivateJSONAtomic replaces the file by a rename, or fails and leaves it;
\* where the rename fails it writes in place, which may leave half a file.
WriteSnapshot ==
  /\ writer.at = "write"
  /\ \/ /\ snapshot' = [snapshot EXCEPT ![writer.session] =
                          [state |-> "ok", messages |-> writer.messages]]
        /\ writer' = [writer EXCEPT !.at = "evict"]
        /\ UNCHANGED disturbed
     \/ /\ \/ UNCHANGED snapshot
           \/ snapshot' = [snapshot EXCEPT ![writer.session] = TornFile]
        /\ writer' = Free
        /\ disturbed' = TRUE
  /\ UNCHANGED <<loaded, memory, known, index, writes, created, history>>

\* persistIndexLocked: the sessions beyond MaxSessions leave memory, and the
\* disk as far as their files can be removed.
Stale == {memory[i] : i \in (MaxSessions + 1)..Len(memory)}
Drop(stuck) ==
  /\ memory' = SubSeq(memory, 1, IF Len(memory) > MaxSessions THEN MaxSessions ELSE Len(memory))
  /\ snapshot' = [s \in Sessions |-> IF s \in Stale \ stuck THEN NoFile ELSE snapshot[s]]
  /\ kept' = kept \ Stale
  /\ last' = [s \in Sessions |-> IF s \in Stale THEN 0 ELSE last[s]]
EvictLateMutant ==             \* >= 0 in place of > 0: the cap is one too high
  /\ writer.at = "evict"
  /\ IF Len(memory) > MaxSessions + 1 THEN Drop({}) ELSE UNCHANGED <<memory, snapshot, kept, last>>
  /\ writer' = [writer EXCEPT !.at = "index"]
  /\ UNCHANGED <<loaded, known, index, writes, created, gone, forgot, disturbed>>
EvictKeepsFilesMutant ==       \* the snapshots are not removed
  /\ writer.at = "evict"
  /\ Drop(Stale)
  /\ writer' = [writer EXCEPT !.at = "index"]
  /\ UNCHANGED <<loaded, known, index, writes, created, gone, forgot, disturbed>>
Evict ==
  /\ writer.at = "evict"
  /\ \E stuck \in SUBSET Stale : Drop(stuck) /\ disturbed' = (disturbed \/ stuck # {})
  /\ writer' = [writer EXCEPT !.at = "index"]
  /\ UNCHANGED <<loaded, known, index, writes, created, gone, forgot>>

\* The operation is acknowledged once the index is written.
Acknowledge(s) ==
  IF writer.kind = "save"
  THEN /\ kept' = kept \cup {s}
       /\ last' = IF writer.id > 0 THEN [last EXCEPT ![s] = writer.id] ELSE last
       /\ UNCHANGED gone
  ELSE /\ gone' = gone \cup {s}
       /\ UNCHANGED <<kept, last>>
WriteIndex ==
  /\ writer.at = "index"
  /\ \/ /\ index' = [torn |-> FALSE, sessions |-> memory]
        /\ Acknowledge(writer.session)
        /\ UNCHANGED disturbed
     \/ /\ UNCHANGED index \/ index' = [torn |-> TRUE, sessions |-> <<>>]
        /\ disturbed' = TRUE
        /\ UNCHANGED <<kept, last, gone>>
  /\ writer' = Free
  /\ UNCHANGED <<loaded, memory, known, snapshot, writes, created, forgot>>

\* TL Studio stops, in the middle of an operation or not, and is started again.
Restart ==
  /\ loaded \/ writer.at # "free"
  /\ loaded' = FALSE /\ memory' = <<>> /\ known' = {}
  /\ writer' = Free
  /\ disturbed' = (disturbed \/ writer.at # "free")
  /\ UNCHANGED <<files, writes, created, history>>

-----------------------------------------------------------------------------
Step == Trim \/ WriteSnapshot \/ Evict \/ WriteIndex
Next == \/ FailedLoad \/ Read \/ Step \/ Restart
        \/ \E s \in Sessions : \/ Create(s) \/ MarkSessionExecution(s) \/ UpdateTitle(s)
                               \/ RemoveSession(s)
                               \/ \E size \in Sizes : \/ RecordAcceptedRun(s, size)
                                                      \/ PutNativeMessage(s, size)

Spec == Init /\ [][Next]_vars
\* An operation under way goes on: it holds the mutex and calls the disk only.
FairSpec == Spec /\ WF_vars(Step)

-----------------------------------------------------------------------------
(* Correctness.                                                            *)

Message == [id : 1..MaxWrites, size : Sizes]
TypeOK ==
  /\ loaded \in BOOLEAN /\ forgot \in BOOLEAN /\ disturbed \in BOOLEAN
  /\ memory \in Seq(Sessions)
  /\ index \in [torn : BOOLEAN, sessions : Seq(Sessions)]
  /\ Len(index.sessions) <= MaxSessions
  /\ snapshot \in [Sessions -> [state : {"none", "ok", "torn"}, messages : Seq(Message)]]
  /\ writer \in [at : {"free", "trim", "write", "evict", "index"}, kind : {"none", "save", "remove"},
                 session : Sessions \cup {NoSession}, messages : Seq(Message), id : 0..MaxWrites]
  /\ writes \in 0..MaxWrites /\ last \in [Sessions -> 0..MaxWrites]
  /\ created \subseteq Sessions /\ known \subseteq Sessions
  /\ kept \subseteq Sessions /\ gone \subseteq Sessions

\* What was acknowledged survives later failures of other writes and stops at
\* any point: the session is listed in the index and its transcript ends with
\* the acknowledged message or a later one, unless the very file was torn, or an
\* index could not be read.  (the order of the writes; the atomic replacement)
AckedIsDurable ==
  ~forgot => \A s \in kept :
    /\ index.torn \/ Contains(index.sessions, s)
    /\ \/ snapshot[s].state = "torn"
       \/ /\ snapshot[s].state = "ok"
          /\ last[s] > 0 => /\ snapshot[s].messages # <<>>
                            /\ Last(snapshot[s].messages).id >= last[s]

\* A session whose removal was acknowledged is not listed again after any stop
\* or failure, until something writes it.  (remove writes the index)
RemovedStaysRemoved == \A s \in gone : ~Contains(index.sessions, s) /\ ~Contains(memory, s)

\* Where nothing failed, the index and memory list exactly the sessions that
\* have a snapshot: no transcript is orphaned and none is missing.
\* (persistIndexLocked and remove delete the files of what they drop)
FilesMatchIndex ==
  ~disturbed /\ writer.at = "free" =>
    /\ {s \in Sessions : snapshot[s].state = "ok"} = ToSet(index.sessions)
    /\ LoadedMemory = index.sessions

\* A transcript on disk keeps the order in which its messages were written and
\* stays within both limits, one message excepted.  (saveSnapshotLocked)
TranscriptFits ==
  \A s \in Sessions : LET messages == snapshot[s].messages IN
    /\ Len(messages) <= MaxMessages /\ ~TooHeavy(messages)
    /\ \A i, j \in 1..Len(messages) : i < j => messages[i].id < messages[j].id

\* An operation on the store ends, so that the next one gets the mutex.
SaveEnds == writer.at # "free" ~> writer.at = "free"
=============================================================================
