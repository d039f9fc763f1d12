------------------------- MODULE SessionStoreProofs -------------------------
(***************************************************************************)
(* Proofs about SessionStore for any sessions, limits and message sizes.   *)
(***************************************************************************)
EXTENDS SessionStore, SequenceTheorems, WellFoundedInduction, TLAPS

-----------------------------------------------------------------------------
(* The inductive invariants.                                               *)

Distinct(list) == \A i, j \in 1..Len(list) : list[i] = list[j] => i = j

\* The type invariant, and what the mutex protects: an operation runs on a loaded
\* store, on a session of its own, and has evicted before it writes the index.
WriterType ==
  /\ writer \in [at : {"free", "trim", "write", "evict", "index"}, kind : {"none", "save", "remove"},
                 session : Sessions \cup {NoSession}, messages : Seq(Message), id : 0..MaxWrites]
  /\ writer.at = "free" => writer.kind = "none"
  /\ writer.at # "free" => /\ loaded /\ writer.session \in Sessions
                           /\ writer.kind \in {"save", "remove"}
  /\ writer.at \in {"trim", "write"} => writer.kind = "save"
  /\ writer.at = "index" => Len(memory) <= MaxSessions
ListType ==
  /\ memory \in Seq(Sessions) /\ Distinct(memory)
  /\ index \in [torn : BOOLEAN, sessions : Seq(Sessions)] /\ Distinct(index.sessions)
  /\ Len(index.sessions) <= MaxSessions
FileType ==
  /\ snapshot \in [Sessions -> [state : {"none", "ok", "torn"}, messages : Seq(Message)]]
  /\ \A s \in Sessions : snapshot[s].state # "ok" => snapshot[s].messages = <<>>
HistoryType ==
  /\ writes \in 0..MaxWrites /\ last \in [Sessions -> 0..MaxWrites]
  /\ created \subseteq Sessions /\ known \subseteq Sessions
  /\ kept \subseteq Sessions /\ gone \subseteq Sessions
  /\ loaded \in BOOLEAN /\ forgot \in BOOLEAN /\ disturbed \in BOOLEAN
TypeInv == WriterType /\ ListType /\ FileType /\ HistoryType

\* The session that is saved is the newest in memory, so no eviction takes it;
\* the one that is removed is not in memory.
WriterListed ==
  /\ writer.kind = "save" => memory # <<>> /\ memory[1] = writer.session
  /\ writer.kind = "remove" => writer.session \notin ToSet(memory)

\* A removed session is nowhere.
RemovedInv == WriterListed /\ RemovedStaysRemoved

\* A transcript ends with message n or a later one.
EndsWith(messages, n) == n > 0 => messages # <<>> /\ Last(messages).id >= n

\* No acknowledgement is ahead of the messages written.
AckedWasWritten ==
  /\ writer.id <= writes
  /\ \A s \in Sessions : last[s] <= writes /\ (s \notin kept => last[s] = 0)
\* What the writer carries, or has put on disk, ends with what was acknowledged
\* before and with its own message.
CarriesAcked ==
  /\ writer.at \in {"trim", "write"} =>
       EndsWith(writer.messages, last[writer.session]) /\ EndsWith(writer.messages, writer.id)
  /\ writer.at \in {"evict", "index"} /\ writer.kind = "save" =>
       /\ snapshot[writer.session].state = "ok"
       /\ EndsWith(snapshot[writer.session].messages, last[writer.session])
       /\ EndsWith(snapshot[writer.session].messages, writer.id)
\* The store a process works on has what was acknowledged.
AckedInMemory == ~forgot /\ loaded => kept \subseteq ToSet(memory)
AckedInv == AckedWasWritten /\ (~forgot => CarriesAcked) /\ AckedInMemory /\ AckedIsDurable
OnDisk(s) == \/ snapshot[s].state = "torn"
             \/ snapshot[s].state = "ok" /\ EndsWith(snapshot[s].messages, last[s])

\* Where nothing failed, memory is ahead of the files by the operation under way.
OkFiles == {s \in Sessions : snapshot[s].state = "ok"}
FilesAhead ==
  ~disturbed =>
    /\ ~index.torn /\ \A s \in Sessions : snapshot[s].state # "torn"
    /\ writer.at = "free" => OkFiles = ToSet(index.sessions) /\ LoadedMemory = index.sessions
    /\ writer.at \in {"trim", "write"} => ToSet(memory) = OkFiles \cup {writer.session}
    /\ writer.at \in {"evict", "index"} => ToSet(memory) = OkFiles

\* What is on disk, and what the writer carries, are parts of one growing sequence
\* of messages, in its order; the writer has cut its own to the limits.
InOrder(messages, n) ==
  /\ \A i \in 1..Len(messages) : messages[i].id <= n
  /\ \A i, j \in 1..Len(messages) : i < j => messages[i].id < messages[j].id
Ordered(messages, n) == Len(messages) <= MaxMessages /\ InOrder(messages, n)
OrderedInv ==
  /\ \A s \in Sessions : Ordered(snapshot[s].messages, writes) /\ ~TooHeavy(snapshot[s].messages)
  /\ Ordered(writer.messages, writes)
  /\ writer.at = "write" => ~TooHeavy(writer.messages)

-----------------------------------------------------------------------------
(* Lists of sessions.                                                      *)

\* What a list holds.
LEMMA Listed ==
  ASSUME NEW S, NEW list \in Seq(S), NEW s
  PROVE  /\ Contains(list, s) <=> s \in ToSet(list)
         /\ s \in ToSet(list) <=> \E i \in 1..Len(list) : list[i] = s
BY DEF Contains, ToSet

\* A nonempty set of natural numbers has a least member.
LEMMA Least ==
  ASSUME NEW T \in SUBSET Nat, T # {}
  PROVE  \E n \in T : \A k \in T : n <= k
<1> DEFINE R == {ss \in Nat \X Nat : ss[1] < ss[2]}
<1>1. IsWellFoundedOn(R, Nat)
  BY NatLessThanWellFounded DEF OpToRel
<1>2. PICK n \in T : \A k \in T : ~(<<k, n>> \in R)
  <2> HIDE DEF R
  <2> QED BY <1>1, WFMin
<1>3. \A k \in T : ~(k < n)
  BY <1>2
<1> QED BY <1>3

\* The list without its i-th element.
LEMMA WithoutOne ==
  ASSUME NEW S, NEW list \in Seq(S), NEW i \in 1..Len(list)
  PROVE  /\ RemoveAt(list, i) \in Seq(S) /\ Len(RemoveAt(list, i)) = Len(list) - 1
         /\ \A j \in 1..(Len(list) - 1) : RemoveAt(list, i)[j] = list[IF j < i THEN j ELSE j + 1]
<1> DEFINE a == SubSeq(list, 1, i - 1)
           b == SubSeq(list, i + 1, Len(list))
<1>1. a \in Seq(S) /\ Len(a) = i - 1 /\ \A j \in 1..(i - 1) : a[j] = list[j]
  OBVIOUS
<1>2. b \in Seq(S) /\ Len(b) = Len(list) - i /\ \A j \in 1..(Len(list) - i) : b[j] = list[i + j]
  OBVIOUS
<1>3. RemoveAt(list, i) = a \o b
  BY DEF RemoveAt
<1> HIDE DEF a, b
<1>4. a \o b \in Seq(S) /\ Len(a \o b) = Len(a) + Len(b)
  BY <1>1, <1>2, ConcatProperties
<1>5. \A j \in 1..(Len(a) + Len(b)) : (a \o b)[j] = IF j <= Len(a) THEN a[j] ELSE b[j - Len(a)]
  BY <1>1, <1>2, ConcatProperties
<1> QED BY <1>1, <1>2, <1>3, <1>4, <1>5

\* The list without a session: the others, once each.
LEMMA Removed ==
  ASSUME NEW list \in Seq(Sessions), Distinct(list), NEW s
  PROVE  /\ RemoveFirst(list, s) \in Seq(Sessions) /\ Distinct(RemoveFirst(list, s))
         /\ ToSet(RemoveFirst(list, s)) = ToSet(list) \ {s}
         /\ Len(RemoveFirst(list, s)) <= Len(list)
<1>1. CASE \E i \in 1..Len(list) : list[i] = s
  <2> DEFINE I == {i \in 1..Len(list) : list[i] = s}
  <2>1. \E n \in I : \A k \in I : n <= k
    <3>1. I \in SUBSET Nat /\ I # {}
      BY <1>1
    <3> QED BY <3>1, Least
  <2>2. Min(I) \in I
    BY <2>1 DEF Min
  <2>3. RemoveFirst(list, s) = RemoveAt(list, Min(I))
    BY <1>1, <2>2 DEF RemoveFirst, SelectInSeq
  <2>4. PICK n \in 1..Len(list) : list[n] = s /\ RemoveFirst(list, s) = RemoveAt(list, n)
    BY <2>2, <2>3
  <2> DEFINE rest == RemoveAt(list, n)
  <2>5. /\ rest \in Seq(Sessions) /\ Len(rest) = Len(list) - 1
        /\ \A j \in 1..(Len(list) - 1) : rest[j] = list[IF j < n THEN j ELSE j + 1]
    BY WithoutOne
  <2> HIDE DEF rest
  <2>6. Distinct(rest)
    <3> SUFFICES ASSUME NEW j \in 1..Len(rest), NEW k \in 1..Len(rest), rest[j] = rest[k] PROVE j = k
      BY DEF Distinct
    <3>1. PICK u \in 1..Len(list) : u = IF j < n THEN j ELSE j + 1
      BY <2>5
    <3>2. PICK v \in 1..Len(list) : v = IF k < n THEN k ELSE k + 1
      BY <2>5
    <3>3. list[u] = list[v]
      BY <2>5, <3>1, <3>2
    <3>4. u = v
      BY <3>3 DEF Distinct
    <3> QED BY <3>1, <3>2, <3>4
  <2>7. ASSUME NEW x PROVE x \in ToSet(rest) <=> x \in ToSet(list) /\ x # s
    <3>1. x \in ToSet(rest) => x \in ToSet(list) /\ x # s
      <4> SUFFICES ASSUME NEW j \in 1..Len(rest), rest[j] = x PROVE x \in ToSet(list) /\ x # s
        BY <2>5, Listed
      <4>1. x = list[IF j < n THEN j ELSE j + 1]
        BY <2>5
      <4>2. (IF j < n THEN j ELSE j + 1) \in 1..Len(list) \ {n}
        BY <2>5
      <4> QED BY <2>4, <4>1, <4>2, Listed DEF Distinct
    <3>2. x \in ToSet(list) /\ x # s => x \in ToSet(rest)
      <4> SUFFICES ASSUME NEW j \in 1..Len(list), list[j] = x, x # s PROVE x \in ToSet(rest)
        BY Listed
      <4>1. j # n
        BY <2>4
      <4>2. CASE j < n
        <5>1. j \in 1..Len(rest) /\ rest[j] = x
          BY <2>5, <4>2
        <5> QED BY <2>5, <5>1, Listed
      <4>3. CASE j > n
        <5>1. j - 1 \in 1..Len(rest) /\ rest[j - 1] = x
          BY <2>5, <4>3
        <5> QED BY <2>5, <5>1, Listed
      <4> QED BY <4>1, <4>2, <4>3
    <3> QED BY <3>1, <3>2
  <2>8. ToSet(rest) = ToSet(list) \ {s}
    BY <2>7
  <2> QED BY <2>4, <2>5, <2>6, <2>8 DEF rest
<1>2. CASE ~ \E i \in 1..Len(list) : list[i] = s
  <2>1. RemoveFirst(list, s) = list
    BY <1>2 DEF RemoveFirst
  <2>2. s \notin ToSet(list)
    BY <1>2, Listed
  <2> QED BY <2>1, <2>2
<1> QED BY <1>1, <1>2

\* The list with a session moved, or added, to its head.
LEMMA MovedToHead ==
  ASSUME NEW list \in Seq(Sessions), Distinct(list), NEW s \in Sessions
  PROVE  /\ Newest(s, list) \in Seq(Sessions) /\ Distinct(Newest(s, list))
         /\ ToSet(Newest(s, list)) = ToSet(list) \cup {s}
         /\ Newest(s, list) # <<>> /\ Newest(s, list)[1] = s
<1> DEFINE rest == RemoveFirst(list, s)
           new == Newest(s, list)
<1>1. rest \in Seq(Sessions) /\ Distinct(rest) /\ ToSet(rest) = ToSet(list) \ {s}
  BY Removed
<1>2. new = <<s>> \o rest
  BY DEF Newest
<1> HIDE DEF rest, new
<1>3. /\ new \in Seq(Sessions) /\ Len(new) = Len(rest) + 1
      /\ \A i \in 1..Len(new) : new[i] = IF i <= 1 THEN s ELSE rest[i - 1]
  <2>1. <<s>> \in Seq(Sessions) /\ Len(<<s>>) = 1 /\ <<s>>[1] = s
    OBVIOUS
  <2>2. /\ <<s>> \o rest \in Seq(Sessions) /\ Len(<<s>> \o rest) = 1 + Len(rest)
        /\ \A i \in 1..(1 + Len(rest)) :
             (<<s>> \o rest)[i] = IF i <= 1 THEN <<s>>[i] ELSE rest[i - 1]
    BY <1>1, <2>1, ConcatProperties
  <2> QED BY <1>1, <1>2, <2>1, <2>2
<1>4. Len(rest) \in Nat
  BY <1>1
<1>5. \A i \in 1..Len(rest) : rest[i] # s
  BY <1>1, Listed
<1>6. Distinct(new)
  <2> SUFFICES ASSUME NEW j \in 1..Len(new), NEW k \in 1..Len(new), new[j] = new[k] PROVE j = k
    BY DEF Distinct
  <2>1. CASE j = 1 \/ k = 1
    BY <1>3, <1>4, <1>5, <2>1
  <2>2. CASE j # 1 /\ k # 1
    <3>1. j - 1 \in 1..Len(rest) /\ k - 1 \in 1..Len(rest) /\ rest[j - 1] = rest[k - 1]
      BY <1>3, <1>4, <2>2
    <3>2. j - 1 = k - 1
      BY <1>1, <3>1 DEF Distinct
    <3> QED BY <3>2
  <2> QED BY <2>1, <2>2
<1>7. ASSUME NEW x PROVE x \in ToSet(new) <=> x \in ToSet(rest) \/ x = s
  <2>1. x \in ToSet(new) => x \in ToSet(rest) \/ x = s
    BY <1>1, <1>3, <1>4, Listed
  <2>2. x = s => x \in ToSet(new)
    <3>1. 1 \in 1..Len(new) /\ new[1] = s
      BY <1>3, <1>4
    <3> QED BY <1>3, <3>1, Listed
  <2>3. ASSUME NEW i \in 1..Len(rest), rest[i] = x PROVE x \in ToSet(new)
    <3>1. i + 1 \in 1..Len(new) /\ new[i + 1] = x
      BY <1>3, <1>4, <2>3
    <3> QED BY <1>3, <3>1, Listed
  <2> QED BY <1>1, <2>1, <2>2, <2>3, Listed
<1>8. ToSet(new) = ToSet(list) \cup {s}
  <2>1. \A x : x \in ToSet(new) <=> x \in ToSet(list) \cup {s}
    BY <1>1, <1>7
  <2> QED BY <2>1
<1>9. new # <<>> /\ new[1] = s
  BY <1>3, <1>4
<1> QED BY <1>3, <1>6, <1>8, <1>9 DEF new

\* What a list holds after its n-th element.
Beyond(list, n) == {list[i] : i \in (n + 1)..Len(list)}

\* The first n elements of a list, and what is left out.
LEMMA FirstOnes ==
  ASSUME NEW list \in Seq(Sessions), Distinct(list), NEW n \in 0..Len(list),
         NEW front \in Seq(Sessions), Len(front) = n, \A i \in 1..n : front[i] = list[i]
  PROVE  Distinct(front) /\ ToSet(front) = ToSet(list) \ Beyond(list, n)
<1>1. Distinct(front)
  <2> SUFFICES ASSUME NEW j \in 1..Len(front), NEW k \in 1..Len(front), front[j] = front[k] PROVE j = k
    BY DEF Distinct
  <2>1. j \in 1..Len(list) /\ k \in 1..Len(list) /\ list[j] = list[k]
    OBVIOUS
  <2> QED BY <2>1 DEF Distinct
<1>2. ASSUME NEW x
      PROVE  x \in ToSet(front) <=> x \in ToSet(list) \ Beyond(list, n)
  <2>1. ASSUME NEW j \in 1..n, list[j] = x
        PROVE  x \in ToSet(list) /\ x \notin Beyond(list, n)
    <3>1. j \in 1..Len(list) /\ \A i \in (n + 1)..Len(list) : i \in 1..Len(list) /\ i # j
      OBVIOUS
    <3>2. \A i \in (n + 1)..Len(list) : list[i] # list[j]
      BY <3>1 DEF Distinct
    <3> QED BY <2>1, <3>1, <3>2, Listed DEF Beyond
  <2>2. ASSUME NEW j \in 1..Len(list), list[j] = x, x \notin Beyond(list, n)
        PROVE  x \in ToSet(front)
    <3>1. j \in 1..Len(front) /\ front[j] = x
      BY <2>2 DEF Beyond
    <3> QED BY <3>1, Listed
  <2>3. x \in ToSet(front) => \E j \in 1..n : list[j] = x
    BY Listed
  <2>4. x \in ToSet(list) => \E j \in 1..Len(list) : list[j] = x
    BY Listed
  <2> QED BY <2>1, <2>2, <2>3, <2>4
<1>3. ToSet(front) = ToSet(list) \ Beyond(list, n)
  BY <1>2
<1> QED BY <1>1, <1>3

\* Eviction takes the stale sessions from memory and leaves the newest.
LEMMA Evicted ==
  ASSUME TypeInv, NEW stuck, Drop(stuck)
  PROVE  /\ memory' \in Seq(Sessions) /\ Distinct(memory') /\ Len(memory') <= MaxSessions
         /\ ToSet(memory') = ToSet(memory) \ Stale
         /\ memory # <<>> => memory' # <<>> /\ memory'[1] = memory[1]
         /\ Stale \subseteq ToSet(memory)
<1> DEFINE n == IF Len(memory) > MaxSessions THEN MaxSessions ELSE Len(memory)
<1>1. memory \in Seq(Sessions) /\ Distinct(memory) /\ MaxSessions \in Nat \ {0}
  BY CapAssumption DEF TypeInv, ListType
<1>2. n \in 0..Len(memory) /\ n <= MaxSessions
  BY <1>1
<1>3. memory' = SubSeq(memory, 1, n)
  BY DEF Drop
<1>4. Stale = Beyond(memory, n)
  <2>1. \A i : i \in (n + 1)..Len(memory) <=> i \in (MaxSessions + 1)..Len(memory)
    BY <1>1
  <2> QED BY <2>1 DEF Stale, Beyond
<1>5. memory # <<>> => n >= 1
  BY <1>1
<1> HIDE DEF n
<1>6. /\ memory' \in Seq(Sessions) /\ Distinct(memory') /\ Len(memory') = n
      /\ \A i \in 1..n : memory'[i] = memory[i]
      /\ ToSet(memory') = ToSet(memory) \ Beyond(memory, n)
  <2>1. memory' \in Seq(Sessions) /\ Len(memory') = n /\ \A i \in 1..n : memory'[i] = memory[i]
    BY <1>1, <1>2, <1>3
  <2> QED BY <1>1, <1>2, <2>1, FirstOnes
<1>7. Stale \subseteq ToSet(memory)
  <2> SUFFICES ASSUME NEW i \in (n + 1)..Len(memory) PROVE memory[i] \in ToSet(memory)
    BY <1>4 DEF Beyond
  <2>1. i \in 1..Len(memory)
    BY <1>2
  <2> QED BY <1>1, <2>1, Listed
<1>8. memory # <<>> => memory' # <<>> /\ memory'[1] = memory[1]
  BY <1>1, <1>2, <1>5, <1>6
<1> QED BY <1>2, <1>4, <1>6, <1>7, <1>8

-----------------------------------------------------------------------------
(* Transcripts.                                                            *)

\* What is left of a transcript when its oldest messages are dropped.
LEMMA Suffix ==
  ASSUME NEW messages \in Seq(Message), NEW k \in 1..Len(messages)
  PROVE  LET rest == SubSeq(messages, k, Len(messages)) IN
         /\ rest \in Seq(Message) /\ rest # <<>> /\ Len(rest) = Len(messages) - k + 1
         /\ \A i \in 1..Len(rest) : rest[i] = messages[i + k - 1]
         /\ Last(rest) = Last(messages)
<1> DEFINE rest == SubSeq(messages, k, Len(messages))
<1>1. /\ rest \in Seq(Message) /\ Len(rest) = Len(messages) - k + 1
      /\ \A i \in 1..(Len(messages) - k + 1) : rest[i] = messages[i + k - 1]
  OBVIOUS
<1> HIDE DEF rest
<1>2. rest # <<>> /\ Last(rest) = Last(messages)
  BY <1>1 DEF Last
<1> QED BY <1>1, <1>2 DEF rest

\* A part of a transcript ends as the whole does.
LEMMA SuffixEnds ==
  ASSUME NEW messages \in Seq(Message), NEW k \in 1..Len(messages), NEW n, EndsWith(messages, n)
  PROVE  EndsWith(SubSeq(messages, k, Len(messages)), n)
BY Suffix DEF EndsWith

\* A part of a transcript is in the same order.
LEMMA SuffixOrdered ==
  ASSUME NEW messages \in Seq(Message), NEW k \in 1..Len(messages), NEW n, InOrder(messages, n)
  PROVE  InOrder(SubSeq(messages, k, Len(messages)), n)
<1> DEFINE rest == SubSeq(messages, k, Len(messages))
<1>1. /\ rest \in Seq(Message) /\ Len(rest) = Len(messages) - k + 1
      /\ \A i \in 1..Len(rest) : rest[i] = messages[i + k - 1]
  BY Suffix
<1> HIDE DEF rest
<1>2. ASSUME NEW i \in 1..Len(rest)
      PROVE  i + k - 1 \in 1..Len(messages) /\ rest[i] = messages[i + k - 1]
  BY <1>1
<1>3. \A i \in 1..Len(rest) : rest[i].id <= n
  BY <1>2 DEF InOrder
<1>4. ASSUME NEW i \in 1..Len(rest), NEW j \in 1..Len(rest), i < j PROVE rest[i].id < rest[j].id
  <2>1. i + k - 1 < j + k - 1
    BY <1>4
  <2> QED BY <1>2, <2>1 DEF InOrder
<1>5. InOrder(rest, n)
  BY <1>3, <1>4 DEF InOrder
<1> QED BY <1>5 DEF rest

\* The last MaxMessages messages.
LEMMA LatestIsSuffix ==
  ASSUME NEW messages \in Seq(Message)
  PROVE  /\ Latest(messages) \in Seq(Message) /\ Len(Latest(messages)) <= MaxMessages
         /\ \/ Latest(messages) = messages
            \/ \E k \in 1..Len(messages) : Latest(messages) = SubSeq(messages, k, Len(messages))
<1>1. MaxMessages \in Nat \ {0} /\ Len(messages) \in Nat
  BY CapAssumption
<1>2. CASE Len(messages) > MaxMessages
  <2> DEFINE k == Len(messages) - MaxMessages + 1
  <2>1. k \in 1..Len(messages) /\ Len(messages) - k + 1 = MaxMessages
    BY <1>1, <1>2
  <2>2. Latest(messages) = SubSeq(messages, k, Len(messages))
    BY <1>2 DEF Latest
  <2> HIDE DEF k
  <2> QED BY <1>1, <2>1, <2>2, Suffix
<1>3. CASE ~(Len(messages) > MaxMessages)
  BY <1>1, <1>3 DEF Latest
<1> QED BY <1>2, <1>3

\* A transcript with at most one message more.
LEMMA Appended ==
  ASSUME NEW messages \in Seq(Message), NEW m \in Message
  PROVE  LET longer == messages \o <<m>> IN
         /\ longer \in Seq(Message) /\ longer # <<>> /\ Len(longer) = Len(messages) + 1
         /\ Last(longer) = m
         /\ \A i \in 1..Len(messages) : longer[i] = messages[i]
         /\ longer[Len(messages) + 1] = m
<1> DEFINE longer == messages \o <<m>>
<1>1. <<m>> \in Seq(Message) /\ Len(<<m>>) = 1 /\ <<m>>[1] = m
  OBVIOUS
<1>2. /\ longer \in Seq(Message) /\ Len(longer) = Len(messages) + 1
      /\ \A i \in 1..(Len(messages) + 1) :
           longer[i] = IF i <= Len(messages) THEN messages[i] ELSE <<m>>[i - Len(messages)]
  BY <1>1, ConcatProperties
<1> HIDE DEF longer
<1>3. longer[Len(messages) + 1] = m /\ \A i \in 1..Len(messages) : longer[i] = messages[i]
  BY <1>1, <1>2
<1>4. longer # <<>> /\ Last(longer) = m
  BY <1>2, <1>3 DEF Last
<1> QED BY <1>2, <1>3, <1>4 DEF longer

\* Trim keeps the transcript, or drops its first quarter.
LEMMA Trimmed ==
  ASSUME TypeInv, Trim
  PROVE  /\ writer.at = "trim" /\ writer'.kind = writer.kind
         /\ writer'.session = writer.session /\ writer'.id = writer.id
         /\ \/ /\ writer'.at = "write" /\ writer'.messages = writer.messages
               /\ ~TooHeavy(writer.messages)
            \/ /\ writer'.at = "trim"
               /\ \E k \in 1..Len(writer.messages) :
                    writer'.messages = SubSeq(writer.messages, k, Len(writer.messages))
<1>1. writer.messages \in Seq(Message)
  BY DEF TypeInv, WriterType
<1>2. CASE TooHeavy(writer.messages)
  <2>1. Len(writer.messages) \div 4 + 1 \in 1..Len(writer.messages)
    <3>1. Len(writer.messages) > 1 /\ Len(writer.messages) \in Nat
      BY <1>1, <1>2 DEF TooHeavy
    <3>2. \A n \in Nat : n > 1 => n \div 4 + 1 \in 1..n
      OBVIOUS
    <3> QED BY <3>1, <3>2
  <2>2. /\ writer'.at = "trim"
        /\ writer'.messages = SubSeq(writer.messages, Len(writer.messages) \div 4 + 1, Len(writer.messages))
    BY <1>2 DEF Trim, TypeInv, WriterType
  <2> QED BY <1>2, <2>1, <2>2 DEF Trim, TypeInv, WriterType
<1>3. CASE ~TooHeavy(writer.messages)
  BY <1>3 DEF Trim, TypeInv, WriterType
<1> QED BY <1>2, <1>3

-----------------------------------------------------------------------------
(* The steps.                                                              *)

\* A write of a session, with the messages it appends and its own identity.
Opens(s, appended, id) ==
  /\ writer.at = "free" /\ Open(s, appended, id) /\ created' \subseteq Sessions
  /\ \/ appended = <<>> /\ id = 0 /\ UNCHANGED writes
     \/ /\ writes < MaxWrites /\ id = writes + 1 /\ writes' = id
        /\ \E size \in Sizes : appended = <<[id |-> id, size |-> size]>>

\* Every operation that writes a session begins with such a step.
LEMMA WritesOpen ==
  ASSUME TypeInv, NEW s \in Sessions,
         \/ Create(s) \/ MarkSessionExecution(s) \/ UpdateTitle(s)
         \/ \E size \in Sizes : RecordAcceptedRun(s, size) \/ PutNativeMessage(s, size)
  PROVE  \E appended, id : Opens(s, appended, id)
<1>1. created \subseteq Sessions /\ writes \in 0..MaxWrites
  BY DEF TypeInv, HistoryType
<1>2. CASE Create(s)
  <2>1. Opens(s, <<>>, 0)
    BY <1>1, <1>2 DEF Create, Opens
  <2> QED BY <2>1
<1>3. CASE MarkSessionExecution(s) \/ UpdateTitle(s)
  <2>1. Opens(s, <<>>, 0)
    BY <1>1, <1>3 DEF MarkSessionExecution, UpdateTitle, Touch, Opens
  <2> QED BY <2>1
<1>4. ASSUME NEW size \in Sizes, AppendMessage(s, size) PROVE \E appended, id : Opens(s, appended, id)
  <2>1. Opens(s, <<[id |-> writes', size |-> size]>>, writes')
    BY <1>1, <1>4 DEF AppendMessage, Opens
  <2> QED BY <2>1
<1> QED BY <1>2, <1>3, <1>4 DEF RecordAcceptedRun, PutNativeMessage

\* The steps of the store.
LEMMA Steps ==
  ASSUME TypeInv, [Next]_vars
  PROVE  \/ FailedLoad \/ Read \/ Trim \/ WriteSnapshot \/ Evict \/ WriteIndex \/ Restart
         \/ UNCHANGED vars
         \/ \E s \in Sessions : RemoveSession(s) \/ \E appended, id : Opens(s, appended, id)
BY WritesOpen DEF Next, Step

\* What an operation finds when it has loaded the index.
LEMMA LoadedType ==
  ASSUME TypeInv
  PROVE  /\ LoadedMemory \in Seq(Sessions) /\ Distinct(LoadedMemory)
         /\ ToSet(LoadedMemory) \subseteq Sessions
<1>1. LoadedMemory \in Seq(Sessions) /\ Distinct(LoadedMemory)
  BY DEF TypeInv, ListType, LoadedMemory
<1> QED BY <1>1, Listed

\* What a write of a session opens.
LEMMA OpenType ==
  ASSUME TypeInv, NEW s \in Sessions, NEW appended, NEW id, Opens(s, appended, id)
  PROVE  /\ appended \in Seq(Message) /\ id \in 0..MaxWrites /\ writes' \in 0..MaxWrites
         /\ writes <= writes' /\ id <= writes'
         /\ snapshot[s].messages \o appended \in Seq(Message)
         /\ Latest(snapshot[s].messages \o appended) \in Seq(Message)
         /\ \/ appended = <<>> /\ id = 0 /\ snapshot[s].messages \o appended = snapshot[s].messages
            \/ id = writes + 1 /\ \E m \in Message : m.id = id /\ appended = <<m>>
<1>1. writes \in 0..MaxWrites /\ MaxWrites \in Nat /\ snapshot[s].messages \in Seq(Message)
  BY CapAssumption DEF TypeInv, HistoryType, FileType
<1>2. CASE appended = <<>> /\ id = 0 /\ UNCHANGED writes
  <2>1. snapshot[s].messages \o appended = snapshot[s].messages
    BY <1>1, <1>2, ConcatEmptySeq
  <2> QED BY <1>1, <1>2, <2>1, LatestIsSuffix
<1>3. ASSUME NEW size \in Sizes, appended = <<[id |-> id, size |-> size]>>,
             writes < MaxWrites, id = writes + 1, writes' = id
      PROVE  /\ id \in 1..MaxWrites /\ writes' \in 0..MaxWrites /\ writes <= writes'
             /\ \E m \in Message : m.id = id /\ appended = <<m>>
             /\ appended \in Seq(Message)
             /\ snapshot[s].messages \o appended \in Seq(Message)
  <2>1. id \in 1..MaxWrites
    BY <1>1, <1>3
  <2> DEFINE m == [id |-> id, size |-> size]
  <2>2. m \in Message /\ m.id = id /\ appended = <<m>>
    BY <1>3, <2>1 DEF Message
  <2> HIDE DEF m
  <2> QED BY <1>1, <1>3, <2>1, <2>2, Appended
<1>4. \/ appended = <<>> /\ id = 0 /\ UNCHANGED writes
      \/ \E size \in Sizes : /\ appended = <<[id |-> id, size |-> size]>>
                             /\ writes < MaxWrites /\ id = writes + 1 /\ writes' = id
  BY DEF Opens
<1>5. CASE \E size \in Sizes : /\ appended = <<[id |-> id, size |-> size]>>
                              /\ writes < MaxWrites /\ id = writes + 1 /\ writes' = id
  <2>1. /\ id \in 1..MaxWrites /\ id = writes + 1 /\ writes' = id
        /\ \E m \in Message : m.id = id /\ appended = <<m>>
        /\ appended \in Seq(Message) /\ snapshot[s].messages \o appended \in Seq(Message)
    BY <1>3, <1>5
  <2>2. Latest(snapshot[s].messages \o appended) \in Seq(Message)
    BY <2>1, LatestIsSuffix
  <2>3. id \in 0..MaxWrites /\ writes' \in 0..MaxWrites /\ writes <= writes' /\ id <= writes'
    BY <1>1, <2>1
  <2> QED BY <2>1, <2>2, <2>3
<1> QED BY <1>2, <1>4, <1>5

-----------------------------------------------------------------------------
(* The type invariant.                                                     *)

\* The store starts in them.
LEMMA TypeInit == Init => TypeInv
<1> SUFFICES ASSUME Init PROVE TypeInv
  OBVIOUS
<1> USE CapAssumption DEF Init, Free, NoFile
<1>1. WriterType
  BY DEF WriterType
<1>2. ListType
  BY DEF ListType, Distinct
<1>3. FileType
  BY DEF FileType
<1>4. HistoryType
  <2>1. 0 \in 0..MaxWrites
    OBVIOUS
  <2> QED BY <2>1 DEF HistoryType
<1> QED BY <1>1, <1>2, <1>3, <1>4 DEF TypeInv

\* A file that is written or removed.
LEMMA FileChanged ==
  ASSUME FileType, NEW s \in Sessions,
         NEW file \in [state : {"none", "ok", "torn"}, messages : Seq(Message)],
         file.state # "ok" => file.messages = <<>>,
         snapshot' = [snapshot EXCEPT ![s] = file]
  PROVE  FileType'
<1>1. snapshot' \in [Sessions -> [state : {"none", "ok", "torn"}, messages : Seq(Message)]]
  BY DEF FileType
<1>2. ASSUME NEW x \in Sessions, snapshot'[x].state # "ok" PROVE snapshot'[x].messages = <<>>
  <2>1. CASE x = s
    BY <1>2, <2>1 DEF FileType
  <2>2. CASE x # s
    BY <1>2, <2>2 DEF FileType
  <2> QED BY <2>1, <2>2
<1> QED BY <1>1, <1>2 DEF FileType

\* The file of a session without one.
LEMMA NoFileType == /\ NoFile \in [state : {"none", "ok", "torn"}, messages : Seq(Message)]
                    /\ NoFile.state # "ok" /\ NoFile.messages = <<>>
BY DEF NoFile

\* Every step keeps the type invariant.
LEMMA TypeStep == TypeInv /\ [Next]_vars => TypeInv'
<1> SUFFICES ASSUME TypeInv, [Next]_vars PROVE TypeInv'
  OBVIOUS
<1>0. /\ WriterType /\ ListType /\ FileType /\ HistoryType
      /\ MaxSessions \in Nat \ {0} /\ MaxWrites \in Nat
  BY CapAssumption DEF TypeInv
<1>1. CASE FailedLoad
  <2>1. WriterType' /\ FileType' /\ HistoryType'
    BY <1>0, <1>1 DEF FailedLoad, WriterType, FileType, HistoryType, files
  <2>2. ListType'
    BY <1>0, <1>1 DEF FailedLoad, ListType, Distinct, files
  <2> QED BY <2>1, <2>2 DEF TypeInv
<1>2. CASE Read
  <2>1. WriterType' /\ FileType'
    BY <1>0, <1>2 DEF Read, WriterType, FileType, files
  <2>2. ListType'
    BY <1>0, <1>2, LoadedType DEF Read, ListType, Distinct, files
  <2>3. ToSet(memory') \subseteq Sessions
    BY <1>2, LoadedType DEF Read
  <2>4. HistoryType'
    BY <1>0, <1>2, <2>3 DEF Read, Loads, HistoryType, files, history
  <2> QED BY <2>1, <2>2, <2>4 DEF TypeInv
<1>3. CASE Trim
  <2>1. writer'.messages \in Seq(Message) /\ writer'.at \in {"trim", "write"}
    BY <1>0, <1>3, Trimmed, Suffix DEF WriterType
  <2>2. writer' \in [at : {"free", "trim", "write", "evict", "index"}, kind : {"none", "save", "remove"},
                     session : Sessions \cup {NoSession}, messages : Seq(Message), id : 0..MaxWrites]
    <3>1. writer' = [writer EXCEPT !.at = writer'.at, !.messages = writer'.messages]
      BY <1>0, <1>3 DEF Trim, WriterType
    <3> QED BY <1>0, <2>1, <3>1 DEF WriterType
  <2>3. WriterType'
    BY <1>0, <1>3, <2>1, <2>2, Trimmed DEF WriterType, Trim
  <2>4. ListType' /\ FileType' /\ HistoryType'
    BY <1>0, <1>3 DEF Trim, ListType, FileType, HistoryType, files, history
  <2> QED BY <2>3, <2>4 DEF TypeInv
<1>4. CASE WriteSnapshot
  <2>1. writer.session \in Sessions /\ writer.messages \in Seq(Message)
    BY <1>0, <1>4 DEF WriteSnapshot, WriterType
  <2>2. WriterType'
    <3>1. writer' = [writer EXCEPT !.at = "evict"] \/ writer' = Free
      BY <1>4 DEF WriteSnapshot
    <3>2. UNCHANGED <<loaded, memory>> /\ writer.at = "write"
      BY <1>4 DEF WriteSnapshot
    <3>3. CASE writer' = [writer EXCEPT !.at = "evict"]
      BY <1>0, <3>2, <3>3 DEF WriterType
    <3>4. CASE writer' = Free
      BY <1>0, <3>2, <3>4 DEF WriterType, Free
    <3> QED BY <3>1, <3>3, <3>4
  <2>3. FileType'
    <3>1. PICK file \in [state : {"none", "ok", "torn"}, messages : Seq(Message)] :
            /\ file.state # "ok" => file.messages = <<>>
            /\ snapshot' = snapshot \/ snapshot' = [snapshot EXCEPT ![writer.session] = file]
      <4>1. \/ snapshot' = snapshot
            \/ snapshot' = [snapshot EXCEPT ![writer.session] = TornFile]
            \/ snapshot' = [snapshot EXCEPT ![writer.session] =
                              [state |-> "ok", messages |-> writer.messages]]
        BY <1>4 DEF WriteSnapshot
      <4>2. /\ TornFile \in [state : {"none", "ok", "torn"}, messages : Seq(Message)]
            /\ TornFile.state # "ok" => TornFile.messages = <<>>
        BY DEF TornFile
      <4>3. [state |-> "ok", messages |-> writer.messages]
              \in [state : {"none", "ok", "torn"}, messages : Seq(Message)]
        BY <2>1
      <4> QED BY <4>1, <4>2, <4>3
    <3>2. CASE snapshot' = snapshot
      BY <1>0, <3>2 DEF FileType
    <3>3. CASE snapshot' = [snapshot EXCEPT ![writer.session] = file]
      BY <1>0, <2>1, <3>1, <3>3, FileChanged
    <3> QED BY <3>1, <3>2, <3>3
  <2>4. ListType' /\ HistoryType'
    BY <1>0, <1>4 DEF WriteSnapshot, ListType, HistoryType, history
  <2> QED BY <2>2, <2>3, <2>4 DEF TypeInv
<1>5. CASE Evict
  <2>1. PICK stuck \in SUBSET Stale : Drop(stuck) /\ disturbed' = (disturbed \/ stuck # {})
    BY <1>5 DEF Evict
  <2>2. /\ memory' \in Seq(Sessions) /\ Distinct(memory') /\ Len(memory') <= MaxSessions
        /\ Stale \subseteq ToSet(memory)
    BY <2>1, Evicted
  <2>3. WriterType'
    BY <1>0, <1>5, <2>2 DEF Evict, WriterType
  <2>4. ListType'
    BY <1>0, <1>5, <2>2 DEF Evict, ListType
  <2>5. FileType'
    BY <1>0, <2>1 DEF Drop, FileType, NoFile
  <2>6. HistoryType'
    BY <1>0, <1>5, <2>1 DEF Evict, Drop, HistoryType
  <2> QED BY <2>3, <2>4, <2>5, <2>6 DEF TypeInv
<1>6. CASE WriteIndex
  <2>1. WriterType'
    BY <1>0, <1>6 DEF WriteIndex, WriterType, Free
  <2>2. Len(memory) <= MaxSessions /\ writer.session \in Sessions /\ writer.id \in 0..MaxWrites
    BY <1>0, <1>6 DEF WriteIndex, WriterType
  <2>3. ListType'
    <3>1. UNCHANGED memory
      BY <1>6 DEF WriteIndex
    <3>2. \/ UNCHANGED index \/ index' = [torn |-> FALSE, sessions |-> memory]
          \/ index' = [torn |-> TRUE, sessions |-> <<>>]
      BY <1>6 DEF WriteIndex
    <3>3. CASE UNCHANGED index
      BY <1>0, <3>1, <3>3 DEF ListType
    <3>4. CASE index' = [torn |-> FALSE, sessions |-> memory]
      BY <1>0, <2>2, <3>1, <3>4 DEF ListType
    <3>5. CASE index' = [torn |-> TRUE, sessions |-> <<>>]
      BY <1>0, <3>1, <3>5 DEF ListType, Distinct
    <3> QED BY <3>2, <3>3, <3>4, <3>5
  <2>4. FileType'
    BY <1>0, <1>6 DEF WriteIndex, FileType
  <2>5. HistoryType'
    BY <1>0, <1>6, <2>2 DEF WriteIndex, Acknowledge, HistoryType
  <2> QED BY <2>1, <2>3, <2>4, <2>5 DEF TypeInv
<1>7. CASE Restart
  <2>1. WriterType'
    BY <1>0, <1>7 DEF Restart, WriterType, Free
  <2>3. FileType'
    BY <1>0, <1>7 DEF Restart, FileType, files
  <2>4. HistoryType'
    BY <1>0, <1>7 DEF Restart, HistoryType, history
  <2>2. ListType'
    BY <1>0, <1>7 DEF Restart, ListType, Distinct, files
  <2> QED BY <2>1, <2>2, <2>3, <2>4 DEF TypeInv
<1>8. CASE UNCHANGED vars
  BY <1>0, <1>8 DEF vars, TypeInv, WriterType, ListType, Distinct, FileType, HistoryType
<1>9. ASSUME NEW s \in Sessions, RemoveSession(s) PROVE TypeInv'
  <2>1. memory' \in Seq(Sessions) /\ Distinct(memory')
    BY <1>9, LoadedType, Removed DEF RemoveSession
  <2>2. WriterType'
    <3>1. writer' = [Free EXCEPT !.at = "evict", !.kind = "remove", !.session = s] /\ loaded'
      BY <1>9 DEF RemoveSession, Loads
    <3>2. writer' = [at |-> "evict", kind |-> "remove", session |-> s, messages |-> <<>>, id |-> 0]
      BY <3>1 DEF Free
    <3>3. writer' \in [at : {"free", "trim", "write", "evict", "index"}, kind : {"none", "save", "remove"},
                       session : Sessions \cup {NoSession}, messages : Seq(Message), id : 0..MaxWrites]
      <4>1. <<>> \in Seq(Message) /\ 0 \in 0..MaxWrites
        BY <1>0
      <4> QED BY <3>2, <4>1
    <3> QED BY <1>0, <3>1, <3>2, <3>3 DEF WriterType
  <2>3. ListType'
    BY <1>0, <1>9, <2>1 DEF RemoveSession, ListType
  <2>4. FileType'
    <3>1. snapshot' = [snapshot EXCEPT ![s] = NoFile] \/ UNCHANGED snapshot
      BY <1>9 DEF RemoveSession
    <3>2. CASE snapshot' = [snapshot EXCEPT ![s] = NoFile]
      BY <1>0, <3>2, NoFileType, FileChanged
    <3>3. CASE UNCHANGED snapshot
      BY <1>0, <3>3 DEF FileType
    <3> QED BY <3>1, <3>2, <3>3
  <2>5. HistoryType'
    <3>1. /\ loaded' = TRUE /\ (UNCHANGED disturbed \/ disturbed' = TRUE)
          /\ kept' = kept \ {s} /\ last' = [last EXCEPT ![s] = 0]
          /\ UNCHANGED <<known, writes, created, gone, forgot>>
      BY <1>9 DEF RemoveSession, Loads
    <3>2. last' \in [Sessions -> 0..MaxWrites]
      BY <1>0, <3>1 DEF HistoryType
    <3> QED BY <1>0, <3>1, <3>2 DEF HistoryType
  <2> QED BY <2>2, <2>3, <2>4, <2>5 DEF TypeInv
<1>10. ASSUME NEW s \in Sessions, NEW appended, NEW id, Opens(s, appended, id) PROVE TypeInv'
  <2>1. memory' \in Seq(Sessions) /\ Distinct(memory') /\ ToSet(memory') \subseteq Sessions
    BY <1>10, LoadedType, MovedToHead DEF Opens, Open
  <2>2. WriterType'
    <3>1. loaded' = TRUE /\ writer.at = "free"
      BY <1>10 DEF Opens, Open, Loads
    <3>2. \/ writer' = [at |-> "trim", kind |-> "save", session |-> s, id |-> id,
                        messages |-> Latest(snapshot[s].messages \o appended)]
          \/ UNCHANGED writer
      BY <1>10 DEF Opens, Open
    <3>3. id \in 0..MaxWrites /\ Latest(snapshot[s].messages \o appended) \in Seq(Message)
      BY <1>10, OpenType
    <3> QED BY <1>0, <3>1, <3>2, <3>3 DEF WriterType
  <2>3. ListType'
    BY <1>0, <1>10, <2>1 DEF Opens, Open, ListType, files
  <2>4. FileType'
    BY <1>0, <1>10 DEF Opens, Open, FileType, files
  <2>5. HistoryType'
    BY <1>0, <1>10, <2>1, OpenType DEF Opens, Open, Loads, HistoryType
  <2> QED BY <2>2, <2>3, <2>4, <2>5 DEF TypeInv
<1> QED BY <1>1, <1>2, <1>3, <1>4, <1>5, <1>6, <1>7, <1>8, <1>9, <1>10, Steps

\* The store's variables keep their types, and no index lists more sessions than the cap.
THEOREM TypeCorrect == Spec => []TypeOK
<1>1. TypeInv => TypeOK
  BY DEF TypeInv, WriterType, ListType, FileType, HistoryType, TypeOK
<1> QED BY <1>1, TypeInit, TypeStep, PTL DEF Spec

-----------------------------------------------------------------------------
(* What the lists hold, before and after a step.                           *)

\* The members of the lists.
LEMMA Lists ==
  ASSUME TypeInv
  PROVE  /\ ToSet(<<>>) = {}
         /\ ToSet(LoadedMemory) = IF loaded THEN ToSet(memory) ELSE ToSet(index.sessions)
         /\ ToSet(memory) \subseteq Sessions /\ ToSet(index.sessions) \subseteq Sessions
<1>1. memory \in Seq(Sessions) /\ index.sessions \in Seq(Sessions)
  BY DEF TypeInv, ListType
<1>2. ToSet(<<>>) = {}
  BY DEF ToSet
<1> QED BY <1>1, <1>2, Listed DEF LoadedMemory

-----------------------------------------------------------------------------
(* Removals.                                                               *)

\* RemovedStaysRemoved, before and after a step.
LEMMA RemovedParts ==
  /\ TypeInv => (RemovedStaysRemoved <=> \A s \in gone : s \notin ToSet(index.sessions) \cup ToSet(memory))
  /\ TypeInv' => (RemovedStaysRemoved' <=> \A s \in gone' : s \notin ToSet(index'.sessions) \cup ToSet(memory'))
<1>1. TypeInv => /\ \A s : Contains(index.sessions, s) <=> s \in ToSet(index.sessions)
                 /\ \A s : Contains(memory, s) <=> s \in ToSet(memory)
  BY Listed DEF TypeInv, ListType
<1>2. TypeInv' => /\ \A s : Contains(index'.sessions, s) <=> s \in ToSet(index'.sessions)
                  /\ \A s : Contains(memory', s) <=> s \in ToSet(memory')
  BY Listed DEF TypeInv, ListType
<1> QED BY <1>1, <1>2 DEF RemovedStaysRemoved

\* Nothing is removed at first.
LEMMA RemovedInit == Init => RemovedInv
BY TypeInit, RemovedParts DEF Init, Free, RemovedInv, WriterListed

\* Every step keeps a removed session out of memory and the index.
LEMMA RemovedStep == TypeInv /\ RemovedInv /\ [Next]_vars => RemovedInv'
<1> SUFFICES ASSUME TypeInv, RemovedInv, [Next]_vars PROVE RemovedInv'
  OBVIOUS
<1> DEFINE Nowhere == \A s \in gone : s \notin ToSet(index.sessions) \cup ToSet(memory)
<1>a. TypeInv' /\ Nowhere /\ WriterListed
  BY TypeStep, RemovedParts DEF RemovedInv
<1>b. Nowhere' /\ WriterListed' => RemovedInv'
  BY <1>a, RemovedParts DEF RemovedInv
<1>c. writer.at = "free" => writer.kind = "none"
  BY DEF TypeInv, WriterType
<1>d. /\ Free.kind = "none" /\ ToSet(<<>>) = {}
      /\ ToSet(LoadedMemory) \subseteq ToSet(memory) \cup ToSet(index.sessions)
  BY Lists DEF Free
<1>1. CASE FailedLoad
  BY <1>1, <1>a, <1>b, <1>c, <1>d DEF FailedLoad, files, WriterListed
<1>2. CASE Read
  BY <1>2, <1>a, <1>b, <1>c, <1>d DEF Read, files, history, WriterListed
<1>3. CASE Trim
  <2>1. /\ writer'.kind = writer.kind /\ writer'.session = writer.session
        /\ UNCHANGED <<memory, index, gone>>
    BY <1>3, Trimmed DEF Trim, files, history
  <2> QED BY <2>1, <1>a, <1>b DEF WriterListed
<1>4. CASE WriteSnapshot
  <2>1. \/ writer'.kind = writer.kind /\ writer'.session = writer.session
        \/ writer'.kind = "none"
    BY <1>4, <1>d DEF WriteSnapshot, TypeInv, WriterType
  <2>2. UNCHANGED <<memory, index, gone>>
    BY <1>4 DEF WriteSnapshot, history
  <2> QED BY <2>1, <2>2, <1>a, <1>b DEF WriterListed
<1>5. CASE Evict
  <2>1. PICK stuck : Drop(stuck)
    BY <1>5 DEF Evict
  <2>2. /\ ToSet(memory') = ToSet(memory) \ Stale
        /\ memory # <<>> => memory' # <<>> /\ memory'[1] = memory[1]
    BY <2>1, Evicted
  <2>3. writer'.kind = writer.kind /\ writer'.session = writer.session
    BY <1>5 DEF Evict, TypeInv, WriterType
  <2>4. UNCHANGED <<index, gone>>
    BY <1>5 DEF Evict
  <2> QED BY <2>2, <2>3, <2>4, <1>a, <1>b DEF WriterListed
<1>6. CASE WriteIndex
  <2>1. UNCHANGED memory /\ writer'.kind = "none"
    BY <1>6, <1>d DEF WriteIndex
  <2>2. writer.kind \in {"save", "remove"}
    BY <1>6 DEF WriteIndex, TypeInv, WriterType
  <2>3. CASE index' = [torn |-> FALSE, sessions |-> memory] /\ Acknowledge(writer.session)
    <3>1. index'.sessions = memory
      BY <2>3
    <3>2. gone' = gone \/ (writer.kind = "remove" /\ gone' = gone \cup {writer.session})
      <4>1. CASE writer.kind = "save"
        <5>1. UNCHANGED gone
          BY <2>3, <4>1, Zenon DEF Acknowledge
        <5> QED BY <5>1
      <4>2. CASE writer.kind = "remove"
        BY <2>3, <4>2 DEF Acknowledge
      <4> QED BY <2>2, <4>1, <4>2
    <3> QED BY <2>1, <3>1, <3>2, <1>a, <1>b DEF WriterListed
  <2>4. CASE UNCHANGED <<index, gone>>
    BY <2>1, <2>4, <1>a, <1>b DEF WriterListed
  <2>5. CASE index' = [torn |-> TRUE, sessions |-> <<>>] /\ UNCHANGED gone
    <3>1. index'.sessions = <<>>
      BY <2>5
    <3> QED BY <2>1, <2>5, <3>1, <1>a, <1>b, <1>d DEF WriterListed
  <2> QED BY <1>6, <2>3, <2>4, <2>5 DEF WriteIndex
<1>7. CASE Restart
  BY <1>7, <1>a, <1>b, <1>d DEF Restart, files, history, WriterListed
<1>8. CASE UNCHANGED vars
  BY <1>8, <1>a, <1>b DEF vars, WriterListed
<1>9. ASSUME NEW s \in Sessions, RemoveSession(s) PROVE RemovedInv'
  <2>1. ToSet(memory') = ToSet(LoadedMemory) \ {s}
    BY <1>9, LoadedType, Removed DEF RemoveSession
  <2>2. writer'.kind = "remove" /\ writer'.session = s /\ UNCHANGED <<index, gone>>
    BY <1>9 DEF RemoveSession, Free
  <2> QED BY <2>1, <2>2, <1>a, <1>b, <1>d DEF WriterListed
<1>10. ASSUME NEW s \in Sessions, NEW appended, NEW id, Opens(s, appended, id) PROVE RemovedInv'
  <2>1. memory' = Newest(s, LoadedMemory)
    BY <1>10 DEF Opens, Open
  <2>2. ToSet(memory') = ToSet(LoadedMemory) \cup {s} /\ memory' # <<>> /\ memory'[1] = s
    BY <2>1, LoadedType, MovedToHead
  <2>3. /\ gone' = gone \ {s} /\ UNCHANGED index
        /\ \/ writer'.kind = "save" /\ writer'.session = s
           \/ writer'.kind = "none"
    BY <1>10, <1>c DEF Opens, Open, files
  <2> QED BY <2>2, <2>3, <1>a, <1>b, <1>d DEF WriterListed
<1> QED BY <1>1, <1>2, <1>3, <1>4, <1>5, <1>6, <1>7, <1>8, <1>9, <1>10, Steps

\* A session whose removal was acknowledged is listed nowhere until it is written again.
THEOREM RemovedForGood == Spec => []RemovedStaysRemoved
<1>1. RemovedInv => RemovedStaysRemoved
  BY DEF RemovedInv
<1> QED BY <1>1, TypeInit, TypeStep, RemovedInit, RemovedStep, PTL DEF Spec

-----------------------------------------------------------------------------
(* Acknowledged writes.                                                    *)

\* AckedIsDurable, before and after a step.
LEMMA DurableParts ==
  /\ TypeInv => (AckedIsDurable <=>
       (~forgot => \A s \in kept : (index.torn \/ s \in ToSet(index.sessions)) /\ OnDisk(s)))
  /\ TypeInv' => (AckedIsDurable' <=>
       (~forgot' => \A s \in kept' : (index'.torn \/ s \in ToSet(index'.sessions)) /\ OnDisk(s)'))
<1>1. TypeInv => \A s : Contains(index.sessions, s) <=> s \in ToSet(index.sessions)
  BY Listed DEF TypeInv, ListType
<1>2. TypeInv' => \A s : Contains(index'.sessions, s) <=> s \in ToSet(index'.sessions)
  BY Listed DEF TypeInv, ListType
<1>3. AckedIsDurable <=>
        (~forgot => \A s \in kept : (index.torn \/ Contains(index.sessions, s)) /\ OnDisk(s))
  BY DEF AckedIsDurable, OnDisk, EndsWith
<1>4. AckedIsDurable' <=>
        (~forgot' => \A s \in kept' : (index'.torn \/ Contains(index'.sessions, s)) /\ OnDisk(s)')
  BY DEF AckedIsDurable, OnDisk, EndsWith
<1> QED BY <1>1, <1>2, <1>3, <1>4

\* Nothing is acknowledged at first.
LEMMA AckedInit == Init => AckedInv
<1> SUFFICES ASSUME Init PROVE AckedInv
  OBVIOUS
<1>1. AckedWasWritten /\ CarriesAcked /\ AckedInMemory
  BY DEF Init, Free, AckedWasWritten, CarriesAcked, AckedInMemory
<1>2. AckedIsDurable
  BY DEF Init, AckedIsDurable
<1> QED BY <1>1, <1>2 DEF AckedInv

\* No acknowledgement gets ahead of the messages written.
LEMMA AckedWasWrittenStep == TypeInv /\ AckedWasWritten /\ [Next]_vars => AckedWasWritten'
<1> SUFFICES ASSUME TypeInv, AckedWasWritten, [Next]_vars PROVE AckedWasWritten'
  OBVIOUS
<1>a. /\ writes \in Nat /\ writer.id \in Nat /\ kept \subseteq Sessions
      /\ last \in [Sessions -> 0..MaxWrites] /\ \A s \in Sessions : last[s] \in Nat
  BY CapAssumption DEF TypeInv, HistoryType, WriterType
<1>b. Free.id = 0
  BY DEF Free
<1>1. CASE FailedLoad \/ Read \/ UNCHANGED vars
  BY <1>1, <1>a DEF FailedLoad, Read, vars, files, history, AckedWasWritten
<1>2. CASE Trim
  BY <1>2, <1>a, Trimmed DEF Trim, files, history, AckedWasWritten
<1>3. CASE WriteSnapshot
  <2>1. writer'.id = writer.id \/ writer'.id = 0
    BY <1>3, <1>b DEF WriteSnapshot, TypeInv, WriterType
  <2>2. UNCHANGED <<writes, kept, last>>
    BY <1>3 DEF WriteSnapshot, history
  <2> QED BY <2>1, <2>2, <1>a DEF AckedWasWritten
<1>4. CASE Evict
  <2>1. PICK stuck : Drop(stuck)
    BY <1>4 DEF Evict
  <2>2. /\ kept' = kept \ Stale
        /\ \A s \in Sessions : last'[s] = IF s \in Stale THEN 0 ELSE last[s]
    BY <2>1, <1>a DEF Drop
  <2>3. UNCHANGED writes /\ writer'.id = writer.id
    BY <1>4 DEF Evict, TypeInv, WriterType
  <2> QED BY <2>2, <2>3, <1>a DEF AckedWasWritten
<1>5. CASE WriteIndex
  <2>1. UNCHANGED writes /\ writer'.id = 0
    BY <1>5, <1>b DEF WriteIndex
  <2>2. CASE UNCHANGED <<kept, last>>
    BY <2>1, <2>2, <1>a DEF AckedWasWritten
  <2>3. CASE /\ kept' = kept \cup {writer.session}
             /\ last' = IF writer.id > 0 THEN [last EXCEPT ![writer.session] = writer.id] ELSE last
    <3>1. \A s \in Sessions : last'[s] = last[s] \/ (s = writer.session /\ last'[s] = writer.id)
      <4>1. CASE writer.id > 0
        BY <2>3, <4>1, <1>a
      <4>2. CASE ~(writer.id > 0)
        BY <2>3, <4>2
      <4> QED BY <4>1, <4>2
    <3> QED BY <2>1, <2>3, <3>1, <1>a DEF AckedWasWritten
  <2> QED BY <1>5, <2>2, <2>3 DEF WriteIndex, Acknowledge
<1>6. CASE Restart
  BY <1>6, <1>a, <1>b DEF Restart, history, AckedWasWritten
<1>7. ASSUME NEW s \in Sessions, RemoveSession(s) PROVE AckedWasWritten'
  <2>1. kept' = kept \ {s} /\ \A x \in Sessions : last'[x] = IF x = s THEN 0 ELSE last[x]
    BY <1>7, <1>a DEF RemoveSession
  <2>2. writer'.id = 0 /\ UNCHANGED writes
    BY <1>7 DEF RemoveSession, Free
  <2> QED BY <2>1, <2>2, <1>a DEF AckedWasWritten
<1>8. ASSUME NEW s \in Sessions, NEW appended, NEW id, Opens(s, appended, id) PROVE AckedWasWritten'
  <2>1. id <= writes' /\ writes <= writes' /\ writes' \in Nat /\ id \in Nat
    BY <1>8, OpenType, CapAssumption
  <2>2. UNCHANGED <<kept, last>> /\ (writer'.id = id \/ UNCHANGED writer)
    BY <1>8 DEF Opens, Open
  <2> QED BY <2>1, <2>2, <1>a DEF AckedWasWritten
<1> QED BY <1>1, <1>2, <1>3, <1>4, <1>5, <1>6, <1>7, <1>8, Steps

\* What a write opens ends as what was on disk, and with its own message.
LEMMA OpenCarries ==
  ASSUME TypeInv, AckedWasWritten, NEW s \in Sessions, NEW appended, NEW id,
         Opens(s, appended, id), EndsWith(snapshot[s].messages, last[s])
  PROVE  /\ EndsWith(Latest(snapshot[s].messages \o appended), last[s])
         /\ EndsWith(Latest(snapshot[s].messages \o appended), id)
<1> DEFINE all == snapshot[s].messages \o appended
<1>1. /\ snapshot[s].messages \in Seq(Message) /\ all \in Seq(Message)
      /\ last[s] \in Nat /\ writes \in Nat /\ last[s] <= writes
  BY OpenType, CapAssumption DEF TypeInv, FileType, HistoryType, AckedWasWritten
<1>2. EndsWith(all, last[s]) /\ EndsWith(all, id)
  <2>1. CASE appended = <<>> /\ id = 0 /\ all = snapshot[s].messages
    BY <2>1 DEF EndsWith
  <2>2. ASSUME id = writes + 1, NEW m \in Message, m.id = id, appended = <<m>>
        PROVE  EndsWith(all, last[s]) /\ EndsWith(all, id)
    <3>1. all # <<>> /\ Last(all) = m
      BY <1>1, <2>2, Appended
    <3>2. m.id >= last[s] /\ m.id >= id
      BY <1>1, <2>2
    <3> HIDE DEF all
    <3> QED BY <3>1, <3>2 DEF EndsWith
  <2> QED BY <2>1, <2>2, OpenType
<1> HIDE DEF all
<1>3. EndsWith(Latest(all), last[s]) /\ EndsWith(Latest(all), id)
  BY <1>1, <1>2, LatestIsSuffix, SuffixEnds
<1> QED BY <1>3 DEF all

\* Every step but a failed load keeps what was acknowledged on disk.
LEMMA AckedStep == TypeInv /\ RemovedInv /\ AckedInv /\ [Next]_vars => AckedInv'
<1> SUFFICES ASSUME TypeInv, RemovedInv, AckedInv, [Next]_vars PROVE AckedInv'
  OBVIOUS
<1> DEFINE Durable == \A s \in kept : (index.torn \/ s \in ToSet(index.sessions)) /\ OnDisk(s)
           InMemory == loaded => kept \subseteq ToSet(memory)
           Good == CarriesAcked /\ InMemory /\ Durable
<1>a. TypeInv' /\ AckedWasWritten /\ AckedWasWritten'
  BY TypeStep, AckedWasWrittenStep DEF AckedInv
<1>b. ~forgot => CarriesAcked /\ InMemory /\ Durable
  BY DurableParts DEF AckedInv, AckedInMemory
<1>c. (~forgot' => CarriesAcked' /\ InMemory' /\ Durable') => AckedInv'
  BY <1>a, DurableParts DEF AckedInv, AckedInMemory
<1>d. CASE forgot'
  BY <1>c, <1>d
<1> SUFFICES ASSUME ~forgot' PROVE Good'
  BY <1>c, <1>d
<1>e. ~forgot /\ ~FailedLoad
  <2>1. ~FailedLoad
    BY DEF FailedLoad
  <2>2. UNCHANGED forgot
    BY <2>1, Steps DEF Read, Trim, WriteSnapshot, Evict, WriteIndex, Restart, RemoveSession,
                       Opens, Open, vars, history
  <2> QED BY <2>1, <2>2
<1>f. /\ CarriesAcked /\ InMemory /\ Durable /\ WriterListed
      /\ kept \subseteq Sessions
  BY <1>b, <1>e DEF RemovedInv, TypeInv, HistoryType
<1>g. Free.at = "free"
  BY DEF Free
<1>h. (loaded \/ ~index.torn) => kept \subseteq ToSet(LoadedMemory)
  BY <1>f, Lists
<1>i. writer.at # "free" => loaded /\ writer.session \in Sessions
  BY DEF TypeInv, WriterType
<1>1. CASE Read
  BY <1>1, <1>f, <1>h DEF Read, Loads, files, history, CarriesAcked, OnDisk
<1>2. CASE Trim
  <2>1. writer'.session = writer.session /\ writer'.id = writer.id /\ writer'.at \in {"trim", "write"}
    BY <1>2, Trimmed
  <2>2. /\ EndsWith(writer.messages, last[writer.session]) /\ EndsWith(writer.messages, writer.id)
        /\ writer.messages \in Seq(Message)
    BY <1>2, <1>f DEF Trim, CarriesAcked, TypeInv, WriterType
  <2>3. EndsWith(writer'.messages, last[writer.session]) /\ EndsWith(writer'.messages, writer.id)
    BY <1>2, <2>2, Trimmed, SuffixEnds
  <2>4. UNCHANGED <<loaded, memory, index, snapshot, kept, last>>
    BY <1>2 DEF Trim, files, history
  <2>5. CarriesAcked'
    BY <2>1, <2>3, <2>4 DEF CarriesAcked
  <2> QED BY <1>f, <2>4, <2>5 DEF OnDisk
<1>3. CASE WriteSnapshot
  <2>1. /\ UNCHANGED <<loaded, memory, index, kept, last>> /\ writer.at = "write"
        /\ writer.session \in Sessions
        /\ snapshot \in [Sessions -> [state : {"none", "ok", "torn"}, messages : Seq(Message)]]
    BY <1>3, <1>i DEF WriteSnapshot, history, TypeInv, FileType
  <2>2. /\ EndsWith(writer.messages, last[writer.session]) /\ EndsWith(writer.messages, writer.id)
    BY <2>1, <1>f DEF CarriesAcked
  <2>3. CASE /\ snapshot' = [snapshot EXCEPT ![writer.session] =
                              [state |-> "ok", messages |-> writer.messages]]
             /\ writer' = [writer EXCEPT !.at = "evict"]
    <3>1. /\ snapshot'[writer.session].state = "ok"
          /\ snapshot'[writer.session].messages = writer.messages
          /\ \A s \in Sessions \ {writer.session} : snapshot'[s] = snapshot[s]
      BY <2>1, <2>3
    <3>2. writer'.at = "evict" /\ writer'.session = writer.session /\ writer'.id = writer.id
      BY <2>3 DEF TypeInv, WriterType
    <3>3. CarriesAcked'
      BY <2>1, <2>2, <3>1, <3>2 DEF CarriesAcked
    <3>4. \A s \in kept : OnDisk(s)'
      BY <1>f, <2>1, <2>2, <3>1 DEF OnDisk
    <3> QED BY <1>f, <2>1, <3>3, <3>4
  <2>4. CASE /\ snapshot' = snapshot \/ snapshot' = [snapshot EXCEPT ![writer.session] = TornFile]
             /\ writer' = Free
    <3>1. \A s \in Sessions : snapshot'[s] = snapshot[s] \/ snapshot'[s] = TornFile
      BY <2>1, <2>4
    <3>2. TornFile.state = "torn"
      BY DEF TornFile
    <3>3. \A s \in kept : OnDisk(s)'
      BY <1>f, <2>1, <3>1, <3>2 DEF OnDisk
    <3> QED BY <1>f, <1>g, <2>1, <2>4, <3>3 DEF CarriesAcked
  <2> QED BY <1>3, <2>3, <2>4 DEF WriteSnapshot
<1>4. CASE Evict
  <2>1. PICK stuck : Drop(stuck)
    BY <1>4 DEF Evict
  <2>2. /\ ToSet(memory') = ToSet(memory) \ Stale
        /\ memory # <<>> => memory' # <<>> /\ memory'[1] = memory[1]
        /\ memory' \in Seq(Sessions)
    BY <2>1, Evicted
  <2>3. /\ kept' = kept \ Stale
        /\ \A s \in Sessions \ Stale : last'[s] = last[s] /\ snapshot'[s] = snapshot[s]
    BY <2>1 DEF Drop
  <2>4. /\ UNCHANGED <<loaded, index>> /\ writer.at = "evict" /\ writer'.at = "index"
        /\ writer'.kind = writer.kind /\ writer'.session = writer.session /\ writer'.id = writer.id
    BY <1>4 DEF Evict, TypeInv, WriterType
  <2>5. writer.kind = "save" => writer.session \notin Stale
    <3> SUFFICES ASSUME writer.kind = "save" PROVE writer.session \in ToSet(memory')
      BY <2>2
    <3>1. memory' # <<>> /\ memory'[1] = writer.session
      BY <1>f, <2>2 DEF WriterListed
    <3>2. 1 \in 1..Len(memory')
      BY <2>2, <3>1
    <3> QED BY <2>2, <3>1, <3>2, Listed
  <2>6. CarriesAcked'
    BY <1>f, <1>i, <2>3, <2>4, <2>5 DEF CarriesAcked
  <2>7. \A s \in kept' : OnDisk(s)'
    BY <1>f, <2>3 DEF OnDisk
  <2> QED BY <1>f, <2>2, <2>3, <2>4, <2>6, <2>7
<1>5. CASE WriteIndex
  <2>1. /\ UNCHANGED <<loaded, memory, snapshot>> /\ writer.at = "index" /\ writer'.at = "free"
        /\ loaded /\ writer.session \in Sessions /\ last \in [Sessions -> 0..MaxWrites]
    BY <1>5, <1>g, <1>i DEF WriteIndex, TypeInv, HistoryType
  <2>2. CarriesAcked'
    BY <2>1 DEF CarriesAcked
  <2>3. CASE UNCHANGED <<kept, last>> /\ (index'.torn \/ index'.sessions = memory \/ UNCHANGED index)
    BY <1>f, <2>1, <2>2, <2>3 DEF OnDisk
  <2>4. CASE /\ writer.kind = "save" /\ kept' = kept \cup {writer.session}
             /\ last' = IF writer.id > 0 THEN [last EXCEPT ![writer.session] = writer.id] ELSE last
             /\ index'.sessions = memory
    <3>1. writer.session \in ToSet(memory)
      <4>1. memory \in Seq(Sessions) /\ memory # <<>> /\ memory[1] = writer.session
        BY <1>f, <2>4 DEF WriterListed, TypeInv, ListType
      <4>2. 1 \in 1..Len(memory)
        BY <4>1
      <4> QED BY <4>1, <4>2, Listed
    <3>2. ASSUME NEW s \in Sessions, s = writer.session PROVE OnDisk(s)'
      <4>1. last'[s] = writer.id \/ last'[s] = last[s]
        <5>1. CASE writer.id > 0
          BY <2>1, <2>4, <3>2, <5>1
        <5>2. CASE ~(writer.id > 0)
          BY <2>4, <5>2
        <5> QED BY <5>1, <5>2
      <4>2. /\ snapshot[s].state = "ok"
            /\ EndsWith(snapshot[s].messages, last[s])
            /\ EndsWith(snapshot[s].messages, writer.id)
        BY <1>f, <2>1, <2>4, <3>2 DEF CarriesAcked
      <4>3. EndsWith(snapshot[s].messages, last'[s])
        BY <4>1, <4>2
      <4> QED BY <2>1, <4>2, <4>3 DEF OnDisk
    <3>3. ASSUME NEW s \in kept, s # writer.session PROVE OnDisk(s)'
      <4>1. last'[s] = last[s]
        BY <1>f, <2>1, <2>4, <3>3
      <4> QED BY <1>f, <2>1, <4>1 DEF OnDisk
    <3>4. kept' \subseteq ToSet(memory')
      BY <1>f, <2>1, <2>4, <3>1
    <3>5. \A s \in kept' : s \in ToSet(index'.sessions)
      BY <2>1, <2>4, <3>4
    <3>6. \A s \in kept' : OnDisk(s)'
      BY <2>1, <2>4, <3>2, <3>3
    <3> QED BY <2>2, <3>4, <3>5, <3>6
  <2>5. writer.kind \in {"save", "remove"}
    BY <2>1 DEF TypeInv, WriterType
  <2>6. CASE index' = [torn |-> FALSE, sessions |-> memory] /\ Acknowledge(writer.session)
    <3>1. index'.sessions = memory
      BY <2>6
    <3> QED BY <2>3, <2>4, <2>5, <2>6, <3>1 DEF Acknowledge
  <2>7. CASE (UNCHANGED index \/ index' = [torn |-> TRUE, sessions |-> <<>>]) /\ UNCHANGED <<kept, last>>
    <3>1. UNCHANGED index \/ index'.torn
      BY <2>7
    <3> QED BY <2>3, <2>7, <3>1
  <2> QED BY <1>5, <2>6, <2>7 DEF WriteIndex
<1>6. CASE Restart
  BY <1>6, <1>f, <1>g DEF Restart, files, history, CarriesAcked, OnDisk
<1>7. CASE UNCHANGED vars
  BY <1>7, <1>f DEF vars, CarriesAcked, OnDisk
<1>8. ASSUME NEW s \in Sessions, RemoveSession(s) PROVE Good'
  <2>1. /\ ToSet(memory') = ToSet(LoadedMemory) \ {s} /\ kept \subseteq ToSet(LoadedMemory)
    BY <1>8, <1>h, LoadedType, Removed DEF RemoveSession, Loads
  <2>2. /\ kept' = kept \ {s} /\ UNCHANGED index
        /\ writer'.at = "evict" /\ writer'.kind = "remove"
    BY <1>8 DEF RemoveSession, Free
  <2>3. \A x \in Sessions \ {s} : last'[x] = last[x] /\ snapshot'[x] = snapshot[x]
    BY <1>8 DEF RemoveSession, TypeInv, FileType, HistoryType
  <2>4. \A x \in kept' : OnDisk(x)'
    BY <1>f, <2>2, <2>3 DEF OnDisk
  <2> QED BY <1>f, <2>1, <2>2, <2>4 DEF CarriesAcked
<1>9. ASSUME NEW s \in Sessions, NEW appended, NEW id, Opens(s, appended, id) PROVE Good'
  <2>1. /\ memory' = Newest(s, LoadedMemory) /\ UNCHANGED <<index, snapshot, kept, last>>
        /\ writer.at = "free" /\ kept \subseteq ToSet(LoadedMemory)
    BY <1>9, <1>h DEF Opens, Open, files, Loads
  <2>2. kept \subseteq ToSet(memory')
    BY <2>1, LoadedType, MovedToHead
  <2>3. CarriesAcked'
    <3>1. CASE UNCHANGED writer
      BY <2>1, <3>1 DEF CarriesAcked
    <3>2. CASE /\ snapshot[s].state # "torn"
               /\ writer' = [at |-> "trim", kind |-> "save", session |-> s, id |-> id,
                             messages |-> Latest(snapshot[s].messages \o appended)]
      <4>1. EndsWith(snapshot[s].messages, last[s])
        BY <1>a, <1>f, <3>2 DEF OnDisk, AckedWasWritten, EndsWith
      <4>2. /\ EndsWith(Latest(snapshot[s].messages \o appended), last[s])
            /\ EndsWith(Latest(snapshot[s].messages \o appended), id)
        BY <1>9, <1>a, <4>1, OpenCarries
      <4>3. /\ writer'.at = "trim" /\ writer'.session = s /\ writer'.id = id
            /\ writer'.messages = Latest(snapshot[s].messages \o appended)
        BY <3>2
      <4> QED BY <2>1, <4>2, <4>3 DEF CarriesAcked
    <3> QED BY <1>9, <3>1, <3>2 DEF Opens, Open
  <2> QED BY <1>f, <2>1, <2>2, <2>3 DEF OnDisk
<1> QED BY <1>e, <1>1, <1>2, <1>3, <1>4, <1>5, <1>6, <1>7, <1>8, <1>9, Steps

\* What was acknowledged is listed, and its transcript ends with it or with a later message.
THEOREM AckedStaysOnDisk == Spec => []AckedIsDurable
<1>1. AckedInv => AckedIsDurable
  BY DEF AckedInv
<1> QED BY <1>1, TypeInit, TypeStep, RemovedInit, RemovedStep, AckedInit, AckedStep, PTL DEF Spec

-----------------------------------------------------------------------------
(* The files and the lists.                                                *)

\* There are no files at first.
LEMMA FilesInit == Init => FilesAhead
<1> SUFFICES ASSUME Init PROVE FilesAhead
  OBVIOUS
<1>1. OkFiles = {}
  BY DEF Init, OkFiles, NoFile
<1>2. /\ ~index.torn /\ LoadedMemory = index.sessions /\ writer.at = "free"
      /\ \A s \in Sessions : snapshot[s].state # "torn"
  BY DEF Init, LoadedMemory, Free, NoFile
<1>3. ToSet(index.sessions) = {}
  BY DEF Init, ToSet
<1> QED BY <1>1, <1>2, <1>3 DEF FilesAhead

\* Where nothing fails, every step keeps memory ahead of the files by one operation.
LEMMA FilesStep == TypeInv /\ FilesAhead /\ [Next]_vars => FilesAhead'
<1> SUFFICES ASSUME TypeInv, FilesAhead, [Next]_vars, ~disturbed' PROVE FilesAhead'
  BY DEF FilesAhead
<1>a. ~disturbed /\ ~FailedLoad
  <2>1. ~FailedLoad
    BY DEF FailedLoad
  <2>2. disturbed => disturbed'
    BY <2>1, Steps DEF Read, Trim, WriteSnapshot, Evict, WriteIndex, Restart, RemoveSession,
                       Opens, Open, vars
  <2> QED BY <2>1, <2>2
<1>b. /\ ~index.torn /\ \A s \in Sessions : snapshot[s].state # "torn"
      /\ writer.at = "free" => OkFiles = ToSet(index.sessions) /\ LoadedMemory = index.sessions
      /\ writer.at \in {"trim", "write"} => ToSet(memory) = OkFiles \cup {writer.session}
      /\ writer.at \in {"evict", "index"} => ToSet(memory) = OkFiles
  BY <1>a DEF FilesAhead
<1>c. /\ writer.at # "free" => loaded /\ writer.session \in Sessions
      /\ snapshot \in [Sessions -> [state : {"none", "ok", "torn"}, messages : Seq(Message)]]
  BY DEF TypeInv, WriterType, FileType
<1>d. Free.at = "free" /\ NoFile.state = "none"
  BY DEF Free, NoFile
<1>1. CASE Read
  BY <1>1, <1>b DEF Read, Loads, files, FilesAhead, OkFiles, LoadedMemory
<1>2. CASE Trim
  <2>1. /\ writer.at = "trim" /\ writer'.at \in {"trim", "write"} /\ writer'.session = writer.session
        /\ UNCHANGED <<memory, index, snapshot>>
    BY <1>2, Trimmed DEF Trim, files
  <2> QED BY <2>1, <1>b DEF FilesAhead, OkFiles
<1>3. CASE WriteSnapshot
  <2>1. /\ snapshot' = [snapshot EXCEPT ![writer.session] = [state |-> "ok", messages |-> writer.messages]]
        /\ writer' = [writer EXCEPT !.at = "evict"]
        /\ UNCHANGED <<memory, index>> /\ writer.at = "write"
    BY <1>3 DEF WriteSnapshot
  <2>2. /\ snapshot'[writer.session].state = "ok"
        /\ \A s \in Sessions \ {writer.session} : snapshot'[s] = snapshot[s]
        /\ writer'.at = "evict"
    BY <2>1, <1>c DEF TypeInv, WriterType
  <2>3. OkFiles' = OkFiles \cup {writer.session}
    BY <2>1, <2>2, <1>c DEF OkFiles
  <2>4. \A s \in Sessions : snapshot'[s].state # "torn"
    BY <2>2, <1>b
  <2> QED BY <2>1, <2>2, <2>3, <2>4, <1>b DEF FilesAhead
<1>4. CASE Evict
  <2>1. Drop({}) /\ UNCHANGED index /\ writer.at = "evict" /\ writer'.at = "index"
    BY <1>4, <1>a DEF Evict, TypeInv, WriterType
  <2>2. ToSet(memory') = ToSet(memory) \ Stale
    BY <2>1, Evicted
  <2>3. \A s \in Sessions : snapshot'[s] = IF s \in Stale THEN NoFile ELSE snapshot[s]
    BY <2>1 DEF Drop
  <2>4. OkFiles' = OkFiles \ Stale /\ \A s \in Sessions : snapshot'[s].state # "torn"
    BY <2>3, <1>b, <1>d DEF OkFiles
  <2> QED BY <2>1, <2>2, <2>4, <1>b DEF FilesAhead
<1>5. CASE WriteIndex
  <2>1. /\ index' = [torn |-> FALSE, sessions |-> memory] /\ writer.at = "index" /\ writer'.at = "free"
        /\ UNCHANGED <<loaded, memory, snapshot>>
    BY <1>5, <1>d DEF WriteIndex
  <2>2. ~index'.torn /\ index'.sessions = memory
    BY <2>1
  <2> QED BY <2>1, <2>2, <1>b, <1>c DEF FilesAhead, OkFiles, LoadedMemory
<1>6. CASE Restart
  <2>1. writer.at = "free" /\ writer'.at = "free" /\ ~loaded' /\ UNCHANGED <<index, snapshot>>
    BY <1>6, <1>d DEF Restart, files
  <2> QED BY <2>1, <1>b DEF FilesAhead, OkFiles, LoadedMemory
<1>7. CASE UNCHANGED vars
  BY <1>7, <1>b DEF vars, FilesAhead, OkFiles, LoadedMemory
<1>8. ASSUME NEW s \in Sessions, RemoveSession(s) PROVE FilesAhead'
  <2>1. ToSet(memory') = ToSet(LoadedMemory) \ {s}
    BY <1>8, LoadedType, Removed DEF RemoveSession
  <2>2. /\ snapshot' = [snapshot EXCEPT ![s] = NoFile] /\ UNCHANGED index
        /\ writer.at = "free" /\ writer'.at = "evict"
    BY <1>8 DEF RemoveSession, Free
  <2>3. \A x \in Sessions : snapshot'[x] = IF x = s THEN NoFile ELSE snapshot[x]
    BY <2>2, <1>c
  <2>4. OkFiles' = OkFiles \ {s} /\ \A x \in Sessions : snapshot'[x].state # "torn"
    BY <2>3, <1>b, <1>d DEF OkFiles
  <2> QED BY <2>1, <2>2, <2>4, <1>b DEF FilesAhead
<1>9. ASSUME NEW s \in Sessions, NEW appended, NEW id, Opens(s, appended, id) PROVE FilesAhead'
  <2>1. /\ memory' = Newest(s, LoadedMemory) /\ UNCHANGED <<index, snapshot>> /\ writer.at = "free"
        /\ writer'.at = "trim" /\ writer'.session = s
    BY <1>9 DEF Opens, Open, files
  <2>2. ToSet(memory') = ToSet(LoadedMemory) \cup {s}
    BY <2>1, LoadedType, MovedToHead
  <2> QED BY <2>1, <2>2, <1>b DEF FilesAhead, OkFiles
<1> QED BY <1>a, <1>1, <1>2, <1>3, <1>4, <1>5, <1>6, <1>7, <1>8, <1>9, Steps

\* Where nothing failed, the index lists exactly the sessions with a snapshot.
THEOREM FilesAreListed == Spec => []FilesMatchIndex
<1>1. FilesAhead => FilesMatchIndex
  BY DEF FilesAhead, FilesMatchIndex, OkFiles
<1> QED BY <1>1, TypeInit, TypeStep, FilesInit, FilesStep, PTL DEF Spec

-----------------------------------------------------------------------------
(* The order and the size of the transcripts.                              *)

\* An empty transcript.
LEMMA NothingFits == \A n : Ordered(<<>>, n) /\ ~TooHeavy(<<>>)
<1>1. Len(<<>>) = 0 /\ MaxMessages \in Nat
  BY CapAssumption
<1>2. \A n : Ordered(<<>>, n)
  BY <1>1 DEF Ordered, InOrder
<1>3. ~TooHeavy(<<>>)
  BY <1>1 DEF TooHeavy
<1> QED BY <1>2, <1>3

\* What was written stays in order when more is written.
LEMMA OrderedLater ==
  ASSUME NEW messages \in Seq(Message), NEW m \in Nat, NEW n \in Nat, m <= n, InOrder(messages, m)
  PROVE  InOrder(messages, n)
<1>1. \A i \in 1..Len(messages) : messages[i].id \in Nat
  <2> SUFFICES ASSUME NEW i \in 1..Len(messages) PROVE messages[i].id \in Nat
    OBVIOUS
  <2>1. messages[i] \in Message /\ MaxWrites \in Nat
    BY CapAssumption
  <2> QED BY <2>1 DEF Message
<1> QED BY <1>1 DEF InOrder

\* What a write opens is in order and within the number of messages.
LEMMA OpenOrdered ==
  ASSUME TypeInv, NEW s \in Sessions, NEW appended, NEW id, Opens(s, appended, id),
         InOrder(snapshot[s].messages, writes)
  PROVE  Ordered(Latest(snapshot[s].messages \o appended), writes')
<1> DEFINE old == snapshot[s].messages
           all == snapshot[s].messages \o appended
<1>1. /\ old \in Seq(Message) /\ all \in Seq(Message)
      /\ writes \in Nat /\ writes' \in Nat /\ writes <= writes'
  BY OpenType, CapAssumption DEF TypeInv, FileType, HistoryType
<1>2. InOrder(all, writes')
  <2>1. CASE all = old
    BY <1>1, <2>1, OrderedLater
  <2>2. ASSUME id = writes + 1, NEW m \in Message, m.id = id, appended = <<m>>
        PROVE  InOrder(all, writes')
    <3>1. /\ Len(all) = Len(old) + 1 /\ \A i \in 1..Len(old) : all[i] = old[i]
          /\ all[Len(old) + 1] = m
      BY <1>1, <2>2, Appended
    <3>2. id <= writes' /\ Len(old) \in Nat
      BY <1>1, OpenType
    <3>3. \A i \in 1..Len(old) : old[i].id \in Nat /\ old[i].id <= writes
      <4> SUFFICES ASSUME NEW i \in 1..Len(old) PROVE old[i].id \in Nat /\ old[i].id <= writes
        OBVIOUS
      <4>1. old[i] \in Message /\ MaxWrites \in Nat
        BY <1>1, CapAssumption
      <4> QED BY <4>1 DEF InOrder, Message
    <3>4. \A i, j \in 1..Len(old) : i < j => old[i].id < old[j].id
      BY DEF InOrder
    <3> HIDE DEF all, old
    <3>5. ASSUME NEW i \in 1..Len(all) PROVE all[i].id <= writes'
      <4>1. CASE i \in 1..Len(old)
        BY <1>1, <3>1, <3>3, <4>1
      <4>2. CASE i = Len(old) + 1
        BY <2>2, <3>1, <3>2, <4>2
      <4> QED BY <3>1, <3>2, <4>1, <4>2
    <3>6. ASSUME NEW i \in 1..Len(all), NEW j \in 1..Len(all), i < j PROVE all[i].id < all[j].id
      <4>1. i \in 1..Len(old)
        BY <3>1, <3>2, <3>6
      <4>2. CASE j \in 1..Len(old)
        BY <3>1, <3>4, <3>6, <4>1, <4>2
      <4>3. CASE j = Len(old) + 1
        BY <1>1, <2>2, <3>1, <3>3, <4>1, <4>3
      <4> QED BY <3>1, <3>2, <4>2, <4>3
    <3> QED BY <3>5, <3>6 DEF InOrder
  <2> QED BY <2>1, <2>2, OpenType
<1> HIDE DEF all
<1>3. Ordered(Latest(all), writes')
  BY <1>1, <1>2, LatestIsSuffix, SuffixOrdered DEF Ordered
<1> QED BY <1>3 DEF all

\* There are no transcripts at first.
LEMMA OrderedInit == Init => OrderedInv
BY NothingFits DEF Init, NoFile, Free, OrderedInv

\* Every step keeps the transcripts in order and within their limits.
LEMMA OrderedStep == TypeInv /\ OrderedInv /\ [Next]_vars => OrderedInv'
<1> SUFFICES ASSUME TypeInv, OrderedInv, [Next]_vars PROVE OrderedInv'
  OBVIOUS
<1> DEFINE Fits(file) == Ordered(file.messages, writes) /\ ~TooHeavy(file.messages)
<1>a. /\ \A s \in Sessions : Ordered(snapshot[s].messages, writes) /\ ~TooHeavy(snapshot[s].messages)
      /\ Ordered(writer.messages, writes)
      /\ writer.at = "write" => ~TooHeavy(writer.messages)
  BY DEF OrderedInv
<1>b. /\ writer.messages \in Seq(Message) /\ writes \in Nat
      /\ snapshot \in [Sessions -> [state : {"none", "ok", "torn"}, messages : Seq(Message)]]
      /\ writer.at # "free" => writer.session \in Sessions
  BY CapAssumption DEF TypeInv, WriterType, FileType, HistoryType
<1>c. /\ Free.messages = <<>> /\ Free.at = "free"
      /\ NoFile.messages = <<>> /\ TornFile.messages = <<>>
  BY DEF Free, NoFile, TornFile
<1>1. CASE FailedLoad \/ Read \/ UNCHANGED vars
  BY <1>1, <1>a DEF FailedLoad, Read, vars, files, OrderedInv
<1>2. CASE Trim
  <2>1. UNCHANGED <<snapshot, writes>>
    BY <1>2 DEF Trim, files
  <2>2. Ordered(writer'.messages, writes)
    <3>1. ASSUME NEW k \in 1..Len(writer.messages)
          PROVE  Ordered(SubSeq(writer.messages, k, Len(writer.messages)), writes)
      BY <1>a, <1>b, Suffix, SuffixOrdered, CapAssumption DEF Ordered
    <3> QED BY <1>2, <1>a, <3>1, Trimmed
  <2>3. writer'.at = "write" => ~TooHeavy(writer'.messages)
    BY <1>2, Trimmed
  <2> QED BY <2>1, <2>2, <2>3, <1>a DEF OrderedInv
<1>3. CASE WriteSnapshot
  <2>1. UNCHANGED writes /\ writer.at = "write" /\ writer.session \in Sessions
    BY <1>3, <1>b DEF WriteSnapshot
  <2>2. writer'.messages \in {writer.messages, <<>>} /\ writer'.at # "write"
    BY <1>3, <1>c DEF WriteSnapshot, TypeInv, WriterType
  <2>3. \A s \in Sessions : snapshot'[s].messages \in {snapshot[s].messages, writer.messages, <<>>}
    <3>1. \/ snapshot' = snapshot
          \/ snapshot' = [snapshot EXCEPT ![writer.session] = TornFile]
          \/ snapshot' = [snapshot EXCEPT ![writer.session] =
                            [state |-> "ok", messages |-> writer.messages]]
      BY <1>3 DEF WriteSnapshot
    <3>2. [state |-> "ok", messages |-> writer.messages].messages = writer.messages
      OBVIOUS
    <3> QED BY <3>1, <3>2, <2>1, <1>b, <1>c
  <2> QED BY <2>1, <2>2, <2>3, <1>a, NothingFits DEF OrderedInv
<1>4. CASE Evict
  <2>1. PICK stuck : Drop(stuck)
    BY <1>4 DEF Evict
  <2>2. \A s \in Sessions : snapshot'[s].messages \in {snapshot[s].messages, <<>>}
    BY <2>1, <1>c DEF Drop
  <2>3. UNCHANGED writes /\ writer'.messages = writer.messages /\ writer'.at = "index"
    BY <1>4 DEF Evict, TypeInv, WriterType
  <2> QED BY <2>2, <2>3, <1>a, NothingFits DEF OrderedInv
<1>5. CASE WriteIndex \/ Restart
  <2>1. UNCHANGED <<writes, snapshot>> /\ writer' = Free
    BY <1>5 DEF WriteIndex, Restart, files
  <2> QED BY <2>1, <1>a, <1>c, NothingFits DEF OrderedInv
<1>6. ASSUME NEW s \in Sessions, RemoveSession(s) PROVE OrderedInv'
  <2>1. \A x \in Sessions : snapshot'[x].messages \in {snapshot[x].messages, <<>>}
    BY <1>6, <1>b, <1>c DEF RemoveSession
  <2>2. UNCHANGED writes /\ writer'.messages = <<>> /\ writer'.at = "evict"
    BY <1>6 DEF RemoveSession, Free
  <2> QED BY <2>1, <2>2, <1>a, NothingFits DEF OrderedInv
<1>7. ASSUME NEW s \in Sessions, NEW appended, NEW id, Opens(s, appended, id) PROVE OrderedInv'
  <2>1. UNCHANGED snapshot /\ writes' \in Nat /\ writes <= writes'
    <3>1. UNCHANGED snapshot
      BY <1>7 DEF Opens, Open, files
    <3>2. writes' \in 0..MaxWrites /\ writes <= writes' /\ MaxWrites \in Nat
      BY <1>7, OpenType, CapAssumption
    <3> QED BY <3>1, <3>2
  <2>2. \A x \in Sessions : Ordered(snapshot[x].messages, writes')
    BY <2>1, <1>a, <1>b, OrderedLater DEF Ordered
  <2>3. Ordered(writer.messages, writes')
    BY <2>1, <1>a, <1>b, OrderedLater DEF Ordered
  <2>4. Ordered(Latest(snapshot[s].messages \o appended), writes')
    BY <1>7, <1>a, OpenOrdered DEF Ordered
  <2>5. \/ writer'.at = "trim" /\ writer'.messages = Latest(snapshot[s].messages \o appended)
        \/ UNCHANGED writer
    BY <1>7 DEF Opens, Open
  <2> QED BY <2>1, <2>2, <2>3, <2>4, <2>5, <1>a DEF OrderedInv
<1> QED BY <1>1, <1>2, <1>3, <1>4, <1>5, <1>6, <1>7, Steps

\* A transcript on disk keeps the order it was written in and fits both limits.
THEOREM TranscriptsFit == Spec => []TranscriptFits
<1>1. OrderedInv => TranscriptFits
  BY DEF OrderedInv, Ordered, InOrder, TranscriptFits
<1> QED BY <1>1, TypeInit, TypeStep, OrderedInit, OrderedStep, PTL DEF Spec
=============================================================================
