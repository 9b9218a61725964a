-------------------------- MODULE StateFiles_proof --------------------------
(***************************************************************************)
(* Proofs about StateFiles, for any threads, processes and documents: what *)
(* a transaction loaded stays on disk until it ends, and the files are an  *)
(* AtomicStore. And about InboxFiles, for any messages, sessions and       *)
(* limit: storing a message is all or nothing, nothing stored is lost, and *)
(* envelope and attachment stay together.                                  *)
(***************************************************************************)
EXTENDS StateFiles, InboxFiles, SequenceTheorems, TLAPS

\* Open transactions belong to the thread that holds the lock file.
Exclusive ==
    \A t \in Threads :
        /\ open[t] # <<>> => fileLock = t /\ step[t] \in {"open", "saving"}
        /\ step[t] \in {"open", "saving"} => open[t] # <<>>

\* A nested transaction is of another file than the one around it.
Nesting ==
    \A t \in Threads : Len(open[t]) = 2 =>
        open[t][1].document = Registry /\ open[t][2].document \in Others

\* Only updates that were counted are on disk.
Counted == \A d \in Documents : disk[d] \subseteq 1 .. updates

Isolation == TypeOK /\ Exclusive /\ Nesting /\ LoadedIsCurrent /\ Counted

-----------------------------------------------------------------------------
(* What the operations do to the transactions of one thread.                *)

\* Opening a transaction puts it after the others.
LEMMA Appended ==
  ASSUME NEW S, NEW s \in Seq(S), NEW e \in S
  PROVE  /\ Append(s, e) \in Seq(S) /\ Append(s, e) # <<>> /\ Len(Append(s, e)) = Len(s) + 1
         /\ DOMAIN Append(s, e) = 1 .. Len(s) + 1
         /\ Append(s, e)[Len(s) + 1] = e
         /\ \A i \in 1 .. Len(s) : Append(s, e)[i] = s[i]
  BY AppendProperties

\* Closing the innermost one keeps the others.
LEMMA WithoutLast ==
  ASSUME NEW S, NEW s \in Seq(S), s # <<>>
  PROVE  /\ Front(s) \in Seq(S) /\ Len(Front(s)) = Len(s) - 1
         /\ DOMAIN Front(s) = 1 .. Len(s) - 1
         /\ Front(s) = <<>> <=> Len(s) = 1
         /\ \A i \in 1 .. Len(s) - 1 : Front(s)[i] = s[i]
  <1>1. Len(s) \in Nat /\ Len(s) > 0
    BY EmptySeq, LenProperties
  <1>2. \A i \in 1 .. Len(s) - 1 : s[i] \in S
    BY <1>1, LenProperties
  <1>3. /\ Front(s) \in Seq(S) /\ Len(Front(s)) = Len(s) - 1
        /\ \A i \in 1 .. Len(s) - 1 : Front(s)[i] = s[i]
    <2> DEFINE n == Len(s) - 1
    <2>1. n \in Int /\ n >= 0 /\ \A i \in 1 .. n : s[i] \in S
      BY <1>1, <1>2
    <2>2. /\ SubSeq(s, 1, n) \in Seq(S)
          /\ Len(SubSeq(s, 1, n)) = IF 1 <= n THEN n - 1 + 1 ELSE 0
          /\ \A i \in 1 .. n - 1 + 1 : SubSeq(s, 1, n)[i] = s[1 + i - 1]
      <3> HIDE DEF n
      <3> QED BY <2>1, SubSeqProperties
    <2>3. Front(s) = SubSeq(s, 1, n)
      BY DEF Front
    <2> HIDE DEF n
    <2>4. Len(Front(s)) = n /\ \A i \in 1 .. n : Front(s)[i] = s[i]
      BY <2>1, <2>2, <2>3
    <2> QED BY <2>2, <2>3, <2>4 DEF n
  <1> QED
    BY <1>1, <1>3, EmptySeq, LenProperties

-----------------------------------------------------------------------------
(* The inductive invariant.                                                 *)

\* At first no transaction is open.
LEMMA IsolationInit == Init => Isolation
  BY StateFilesAssumption, EmptySeq
  DEF Init, Isolation, TypeOK, Exclusive, Nesting, LoadedIsCurrent, Counted, Transactions, Documents

\* A step that leaves the files and every open transaction alone.
LEMMA IsolationOutside ==
  ASSUME Isolation, NEW t \in Threads, open[t] = <<>>, TypeOK',
         UNCHANGED <<disk, open, updates>>,
         \A o \in Threads \ {t} : step'[o] = step[o],
         step'[t] \notin {"open", "saving"},
         fileLock' = fileLock \/ fileLock = t
  PROVE  Isolation'
  BY DEF Isolation, Exclusive, Nesting, LoadedIsCurrent, Counted, TypeOK

\* The holder of the lock file opens a transaction of d, alone or inside one of the
\* registry.
LEMMA IsolationLoad ==
  ASSUME Isolation, NEW t \in Threads, NEW d \in Documents, Load(t, d), TypeOK',
         \/ open[t] = <<>> /\ fileLock = Free
         \/ Len(open[t]) = 1 /\ open[t][1].document = Registry /\ d \in Others /\ fileLock = t,
         fileLock' = t, step' = [step EXCEPT ![t] = "open"],
         UNCHANGED <<disk, updates>>
  PROVE  Isolation'
  <1> USE DEF Isolation
  <1> DEFINE new == [document |-> d, loaded |-> disk[d]]
  <1>1. new \in Transactions /\ open[t] \in Seq(Transactions)
    BY DEF TypeOK, Transactions
  <1>2. open'[t] = Append(open[t], new) /\ \A o \in Threads \ {t} : open'[o] = open[o]
    BY DEF Load, TypeOK
  <1>3. \A o \in Threads \ {t} : open[o] = <<>>
    BY StateFilesAssumption DEF Exclusive
  <1> HIDE DEF new
  <1>4. /\ open'[t] # <<>> /\ Len(open'[t]) = Len(open[t]) + 1 /\ DOMAIN open'[t] = 1 .. Len(open[t]) + 1
        /\ open'[t][Len(open[t]) + 1] = new /\ \A i \in 1 .. Len(open[t]) : open'[t][i] = open[t][i]
    BY <1>1, <1>2, Appended
  <1>5. Len(open[t]) \in Nat /\ DOMAIN open[t] = 1 .. Len(open[t]) /\ (open[t] = <<>> => Len(open[t]) = 0)
    BY <1>1, LenProperties, EmptySeq
  <1>6. Exclusive'
    BY <1>2, <1>3, <1>4 DEF Exclusive, TypeOK
  <1>7. Nesting'
    <2>1. Len(open'[t]) = 2 => open'[t][1].document = Registry /\ open'[t][2].document \in Others
      BY <1>4, <1>5 DEF new
    <2> QED BY <1>2, <2>1 DEF Nesting
  <1>8. LoadedIsCurrent'
    <2>1. \A i \in DOMAIN open'[t] : disk[open'[t][i].document] = open'[t][i].loaded
      <3>1. \A i \in 1 .. Len(open[t]) : disk[open'[t][i].document] = open'[t][i].loaded
        BY <1>4, <1>5 DEF LoadedIsCurrent
      <3>2. disk[new.document] = new.loaded
        BY DEF new
      <3> QED BY <1>4, <1>5, <3>1, <3>2
    <2> QED BY <1>2, <2>1 DEF LoadedIsCurrent
  <1> QED BY <1>6, <1>7, <1>8 DEF Counted

\* The innermost transaction of t is closed, after it replaced its document or did not.
LEMMA IsolationClose ==
  ASSUME Isolation, NEW t \in Threads, open[t] # <<>>, Close(t), TypeOK',
         fileLock' = fileLock,
         \A d \in Documents : d # Last(open[t]).document => disk'[d] = disk[d],
         Counted'
  PROVE  Isolation'
  <1> USE DEF Isolation
  <1>1. open[t] \in Seq(Transactions) /\ Len(open[t]) \in 1 .. 2 /\ DOMAIN open[t] = 1 .. Len(open[t])
    <2>1. open[t] \in Seq(Transactions) /\ Len(open[t]) <= 2
      BY DEF TypeOK
    <2>2. Len(open[t]) \in Nat /\ Len(open[t]) # 0 /\ DOMAIN open[t] = 1 .. Len(open[t])
      BY <2>1, LenProperties, EmptySeq
    <2>3. \A n \in Nat : n <= 2 /\ n # 0 => n \in 1 .. 2
      OBVIOUS
    <2> HIDE DEF Isolation
    <2>4. Len(open[t]) \in 1 .. 2
      BY ONLY <2>1, <2>2, <2>3
    <2> QED BY ONLY <2>1, <2>2, <2>4
  <1>2. open'[t] = Front(open[t]) /\ \A o \in Threads \ {t} : open'[o] = open[o] /\ step'[o] = step[o]
    BY DEF Close, Go, TypeOK
  <1>3. \A o \in Threads \ {t} : open[o] = <<>>
    BY DEF Exclusive
  <1>4. /\ Len(open'[t]) = Len(open[t]) - 1 /\ DOMAIN open'[t] = 1 .. Len(open[t]) - 1
        /\ open'[t] = <<>> <=> Len(open[t]) = 1
        /\ \A i \in 1 .. Len(open[t]) - 1 : open'[t][i] = open[t][i]
    BY <1>1, <1>2, WithoutLast
  <1>5. step'[t] = IF Len(open[t]) = 1 THEN "leaving" ELSE "open"
    BY DEF Close, Go, TypeOK
  <1>6. Exclusive'
    BY <1>2, <1>3, <1>4, <1>5 DEF Exclusive
  <1>7. Nesting'
    BY <1>1, <1>2, <1>4 DEF Nesting
  <1>8. LoadedIsCurrent'
    <2>1. ASSUME NEW i \in DOMAIN open'[t] PROVE disk'[open'[t][i].document] = open'[t][i].loaded
      <3> i \in 1 .. Len(open[t]) - 1
        BY <1>4
      <3>0. \A n \in 1 .. 2 : \A k \in 1 .. n - 1 : k = 1 /\ n = 2
        OBVIOUS
      <3>1. i = 1 /\ Len(open[t]) = 2
        BY ONLY <1>1, <1>4, <3>0, i \in 1 .. Len(open[t]) - 1
      <3>2. open[t][1].document = Registry /\ Last(open[t]).document \in Others
        BY <3>1 DEF Nesting, Last
      <3>3. disk'[Registry] = disk[Registry]
        BY <3>2, StateFilesAssumption DEF Documents
      <3> QED BY <1>1, <1>4, <3>1, <3>2, <3>3 DEF LoadedIsCurrent
    <2>2. \A o \in Threads \ {t} : DOMAIN open'[o] = {}
      BY <1>2, <1>3, EmptySeq
    <2> QED BY <2>1, <2>2 DEF LoadedIsCurrent
  <1> QED BY <1>6, <1>7, <1>8

\* The document of an open transaction.
LEMMA Innermost ==
  ASSUME Isolation, NEW t \in Threads, open[t] # <<>>
  PROVE  /\ open[t] \in Seq(Transactions) /\ Len(open[t]) \in {1, 2} /\ Len(open[t]) \in DOMAIN open[t]
         /\ Last(open[t]) \in Transactions
         /\ disk[Last(open[t]).document] = Last(open[t]).loaded
         /\ Last(open[t]).document = Registry => Len(open[t]) = 1
         /\ \A o \in Threads \ {t} : open[o] = <<>>
  <1>1. open[t] \in Seq(Transactions) /\ Len(open[t]) <= 2
    BY DEF Isolation, TypeOK
  <1>2. Len(open[t]) \in Nat /\ Len(open[t]) # 0 /\ DOMAIN open[t] = 1 .. Len(open[t])
    BY <1>1, LenProperties, EmptySeq
  <1>3. \A n \in Nat : n <= 2 /\ n # 0 => n \in {1, 2} /\ n \in 1 .. n
    OBVIOUS
  <1>4. Len(open[t]) \in {1, 2} /\ Len(open[t]) \in DOMAIN open[t]
    BY ONLY <1>1, <1>2, <1>3
  <1>5. Last(open[t]) \in Transactions
    BY <1>1, <1>4, ElementOfSeq, LenProperties DEF Last
  <1>6. disk[Last(open[t]).document] = Last(open[t]).loaded
    BY <1>4 DEF Isolation, LoadedIsCurrent, Last
  <1>7. Last(open[t]).document = Registry => Len(open[t]) = 1
    BY <1>4, StateFilesAssumption DEF Isolation, Nesting, Last
  <1>8. \A o \in Threads \ {t} : open[o] = <<>>
    BY DEF Isolation, Exclusive
  <1> QED BY <1>1, <1>4, <1>5, <1>6, <1>7, <1>8

\* A write of the innermost document is one commit of AtomicStore.
LEMMA WriteCommits ==
  ASSUME Isolation, NEW t \in Threads, open[t] # <<>>,
         updates < MaxUpdates, updates' = updates + 1,
         disk' = [disk EXCEPT ![Last(open[t]).document] = Last(open[t]).loaded \cup {updates'}]
  PROVE  /\ updates' \in 1 .. MaxUpdates /\ disk' \in [Documents -> SUBSET (1 .. MaxUpdates)] /\ Counted'
         /\ Last(open[t]).document \in Documents
         /\ Store!Commit(Last(open[t]).document, updates')
  <1> DEFINE d == Last(open[t]).document
  <1>1. d \in Documents /\ disk[d] = Last(open[t]).loaded
    BY Innermost DEF Transactions
  <1> HIDE DEF d
  <1>2. disk \in [Documents -> SUBSET (1 .. MaxUpdates)] /\ updates \in 0 .. MaxUpdates /\ MaxUpdates \in Nat
    BY StateFilesAssumption DEF Isolation, TypeOK
  <1>3. disk' = [disk EXCEPT ![d] = disk[d] \cup {updates'}]
    BY <1>1 DEF d
  <1>4. updates' \in 1 .. MaxUpdates /\ 1 .. updates \subseteq 1 .. updates' /\ updates' \notin 1 .. updates
    BY <1>2
  <1>5. Counted /\ disk[d] \subseteq 1 .. updates
    BY <1>1 DEF Isolation, Counted
  <1>6. Counted' /\ disk' \in [Documents -> SUBSET (1 .. MaxUpdates)]
    BY <1>1, <1>2, <1>3, <1>4, <1>5 DEF Counted
  <1>7. Store!Commit(d, updates')
    BY <1>3, <1>4, <1>5 DEF Store!Commit
  <1> QED BY <1>1, <1>4, <1>6, <1>7 DEF d

\* One step per action; deaths close the transactions of a whole process.
LEMMA IsolationStep == Isolation /\ [Next]_vars => Isolation'
  <1> SUFFICES ASSUME Isolation, [Next]_vars PROVE Isolation'
    OBVIOUS
  <1>1. TypeOK
    BY DEF Isolation
  <1>2. ASSUME NEW t \in Threads, NEW d \in Documents, Begin(t, d) PROVE Isolation'
    <2>1. open[t] = <<>>
      BY <1>2 DEF Begin, Isolation, Exclusive
    <2>2. TypeOK'
      BY <1>1, <1>2 DEF Begin, TypeOK, Go, locks
    <2> QED BY <1>1, <1>2, <2>1, <2>2, IsolationOutside DEF Begin, Go, locks, TypeOK
  <1>3. ASSUME NEW t \in Threads, Enter(t) PROVE Isolation'
    <2>1. open[t] = <<>>
      BY <1>3 DEF Enter, Isolation, Exclusive
    <2>2. TypeOK'
      BY <1>1, <1>3 DEF Enter, TypeOK, Go
    <2> QED BY <1>1, <1>3, <2>1, <2>2, IsolationOutside DEF Enter, Go, TypeOK
  <1>4. ASSUME NEW t \in Threads, Lock(t) PROVE Isolation'
    <2>1. open[t] = <<>> /\ fileLock = Free /\ target[t] \in Documents
      BY <1>1, <1>4 DEF Lock, Isolation, Exclusive, TypeOK
    <2>2. [document |-> target[t], loaded |-> disk[target[t]]] \in Transactions
      BY <1>1, <2>1 DEF TypeOK, Transactions
    <2>3. open'[t] \in Seq(Transactions) /\ Len(open'[t]) = 1
      BY <1>1, <1>4, <2>1, <2>2, Appended, EmptySeq DEF Lock, Load, TypeOK
    <2>4. TypeOK'
      BY <1>1, <1>4, <2>3 DEF Lock, Load, TypeOK, Go
    <2> QED BY <1>4, <2>1, <2>4, IsolationLoad DEF Lock, Go
  <1>5. ASSUME NEW t \in Threads, LockFails(t) PROVE Isolation'
    <2>1. open[t] = <<>>
      BY <1>5 DEF LockFails, Isolation, Exclusive
    <2>2. TypeOK'
      BY <1>1, <1>5 DEF LockFails, TypeOK, Go, locks
    <2> QED BY <1>1, <1>5, <2>1, <2>2, IsolationOutside DEF LockFails, Go, locks, TypeOK
  <1>6. ASSUME NEW t \in Threads, NEW d \in Others, Nest(t, d) PROVE Isolation'
    <2>1. d \in Documents /\ open[t] # <<>> /\ fileLock = t
      BY <1>6 DEF Nest, Isolation, Exclusive, Documents
    <2>2. [document |-> d, loaded |-> disk[d]] \in Transactions
      BY <1>1, <2>1 DEF TypeOK, Transactions
    <2>3. open'[t] \in Seq(Transactions) /\ Len(open'[t]) = 2
      <3>1. open[t] \in Seq(Transactions) /\ Len(open[t]) = 1
        BY <1>1, <1>6 DEF Nest, TypeOK
      <3>2. open'[t] = Append(open[t], [document |-> d, loaded |-> disk[d]])
        BY <1>1, <1>6 DEF Nest, Load, TypeOK
      <3> QED BY <2>2, <3>1, <3>2, Appended
    <2>4. TypeOK'
      BY <1>1, <1>6, <2>3 DEF Nest, Load, TypeOK, locks
    <2>5. step' = [step EXCEPT ![t] = "open"]
      BY <1>1, <1>6 DEF Nest, TypeOK
    <2> QED BY <1>6, <2>1, <2>4, <2>5, IsolationLoad DEF Nest, locks
  <1>7. ASSUME NEW t \in Threads, WriteTemporary(t) PROVE Isolation'
    <2>1. TypeOK'
      BY <1>1, <1>7 DEF WriteTemporary, TypeOK, Go, locks
    <2> QED
      BY <1>7, <2>1
      DEF WriteTemporary, Go, locks, Isolation, TypeOK, Exclusive, Nesting, LoadedIsCurrent, Counted
  <1>8. ASSUME NEW t \in Threads, Replace(t) PROVE Isolation'
    <2>1. open[t] # <<>>
      BY <1>8 DEF Replace, Isolation, Exclusive
    <2>2. /\ updates' \in 1 .. MaxUpdates /\ disk' \in [Documents -> SUBSET (1 .. MaxUpdates)] /\ Counted'
          /\ \A d \in Documents : d # Last(open[t]).document => disk'[d] = disk[d]
      BY <1>1, <1>8, <2>1, WriteCommits DEF Replace, TypeOK
    <2>3. TypeOK'
      <3>1. Front(open[t]) \in Seq(Transactions) /\ Len(Front(open[t])) <= 2
        BY <2>1, Innermost, WithoutLast
      <3> QED BY <1>1, <1>8, <2>2, <3>1 DEF Replace, Close, Go, TypeOK, locks
    <2> QED BY <1>8, <2>1, <2>2, <2>3, IsolationClose DEF Replace, locks
  <1>9. ASSUME NEW t \in Threads, Checkpoint(t) PROVE Isolation'
    <2> DEFINE saved == Last(open[t]).loaded \cup {updates'}
    <2>1. open[t] # <<>> /\ Last(open[t]).document = Registry
      BY <1>9 DEF Checkpoint, Isolation, Exclusive
    <2>2. Len(open[t]) = 1 /\ open[t] \in Seq(Transactions) /\ DOMAIN open[t] = 1 .. 1
          /\ \A o \in Threads \ {t} : open[o] = <<>>
      BY <2>1, Innermost, LenProperties
    <2>3. /\ updates' \in 1 .. MaxUpdates /\ disk' \in [Documents -> SUBSET (1 .. MaxUpdates)] /\ Counted'
          /\ disk' = [disk EXCEPT ![Registry] = saved] /\ Registry \in Documents
      BY <1>1, <1>9, <2>1, WriteCommits DEF Checkpoint, TypeOK
    <2>4. open' = [open EXCEPT ![t] = [open[t] EXCEPT ![1] = [open[t][1] EXCEPT !.loaded = saved]]]
      BY <1>9, <2>2 DEF Checkpoint
    <2>5. saved \in SUBSET (1 .. MaxUpdates) /\ disk'[Registry] = saved
      BY <1>1, <2>3 DEF TypeOK
    <2> HIDE DEF saved
    <2>6. open[t][1] \in Transactions /\ open[t][1].document = Registry
      BY <2>1, <2>2, Innermost DEF Last
    <2>7. [open[t][1] EXCEPT !.loaded = saved] = [document |-> Registry, loaded |-> saved]
      BY <2>6 DEF Transactions
    <2>8. /\ open'[t] \in Seq(Transactions) /\ Len(open'[t]) = 1 /\ DOMAIN open'[t] = 1 .. 1
          /\ open'[t][1] = [document |-> Registry, loaded |-> saved]
      <3>1. [document |-> Registry, loaded |-> saved] \in Transactions
        BY <2>3, <2>5 DEF Transactions
      <3>2. open'[t] = [open[t] EXCEPT ![1] = [document |-> Registry, loaded |-> saved]]
        BY <1>1, <2>4, <2>7 DEF TypeOK
      <3> QED BY <2>2, <3>1, <3>2, ExceptSeq
    <2>9. TypeOK'
      BY <1>1, <1>9, <2>3, <2>4, <2>8 DEF Checkpoint, TypeOK, locks
    <2>10. Exclusive' /\ Nesting'
      <3>1. open'[t] # <<>>
        BY <2>8, EmptySeq
      <3>2. \A o \in Threads \ {t} : open'[o] = <<>> /\ Len(open'[o]) = 0
        BY <1>1, <2>2, <2>4, EmptySeq DEF TypeOK
      <3>3. step' = step /\ fileLock' = fileLock /\ step[t] = "open"
        BY <1>9 DEF Checkpoint, locks
      <3>4. Exclusive'
        BY <2>1, <2>2, <3>1, <3>2, <3>3 DEF Isolation, Exclusive
      <3>5. Nesting'
        BY <2>8, <3>2 DEF Nesting
      <3> QED BY <3>4, <3>5
    <2>11. LoadedIsCurrent'
      <3>1. \A o \in Threads \ {t} : DOMAIN open'[o] = {}
        BY <1>1, <2>2, <2>4, EmptySeq DEF TypeOK
      <3>2. \A i \in DOMAIN open'[t] : i = 1
        BY <2>8
      <3>3. disk'[open'[t][1].document] = open'[t][1].loaded
        BY <2>5, <2>8
      <3> QED BY <3>1, <3>2, <3>3 DEF LoadedIsCurrent
    <2> QED BY <2>3, <2>9, <2>10, <2>11 DEF Isolation
  <1>10. ASSUME NEW t \in Threads, ReadOnly(t) PROVE Isolation'
    <2>1. open[t] # <<>>
      BY <1>10 DEF ReadOnly, Isolation, Exclusive
    <2>2. TypeOK'
      <3>1. Front(open[t]) \in Seq(Transactions) /\ Len(Front(open[t])) <= 2
        BY <2>1, Innermost, WithoutLast
      <3> QED BY <1>1, <1>10, <3>1 DEF ReadOnly, Close, Go, TypeOK, locks
    <2>3. Counted'
      BY <1>10 DEF ReadOnly, Isolation, Counted
    <2> QED BY <1>10, <2>1, <2>2, <2>3, IsolationClose DEF ReadOnly, locks
  <1>11. ASSUME NEW t \in Threads, Raise(t) PROVE Isolation'
    <2>1. TypeOK'
      BY <1>1, <1>11, EmptySeq DEF Raise, TypeOK, Go, locks
    <2> QED
      BY <1>11, <2>1, EmptySeq
      DEF Raise, Go, locks, Isolation, TypeOK, Exclusive, Nesting, LoadedIsCurrent, Counted
  <1>12. ASSUME NEW t \in Threads, Leave(t) PROVE Isolation'
    <2>1. open[t] = <<>>
      BY <1>12 DEF Leave, Isolation, Exclusive
    <2>2. TypeOK'
      BY <1>1, <1>12 DEF Leave, TypeOK, Go
    <2> QED BY <1>1, <1>12, <2>1, <2>2, IsolationOutside DEF Leave, Go, TypeOK
  <1>13. ASSUME NEW h \in Processes, Die(h) PROVE Isolation'
    <2>1. TypeOK'
      <3>1. open' \in [Threads -> Seq(Transactions)] /\ \A t \in Threads : Len(open'[t]) <= 2
        <4>1. \A t \in Threads : open'[t] = open[t] \/ open'[t] = <<>>
          BY <1>13 DEF Die
        <4>2. <<>> \in Seq(Transactions) /\ Len(<<>>) = 0
          BY EmptySeq
        <4>3. \A t \in Threads : open'[t] \in Seq(Transactions) /\ Len(open'[t]) <= 2
          <5> SUFFICES ASSUME NEW t \in Threads PROVE open'[t] \in Seq(Transactions) /\ Len(open'[t]) <= 2
            OBVIOUS
          <5>1. CASE open'[t] = open[t]
            BY <1>1, <5>1 DEF TypeOK
          <5>2. CASE open'[t] = <<>>
            <6>1. Len(open'[t]) = 0 /\ open'[t] \in Seq(Transactions)
              BY <4>2, <5>2
            <6> QED BY <6>1
          <5> QED BY <4>1, <5>1, <5>2
        <4>4. open' = [t \in Threads |-> open'[t]]
          BY <1>13 DEF Die
        <4> QED BY <4>3, <4>4
      <3>2. fileLock' \in Threads \cup {Free} /\ pairingsLock' \in [Processes -> Threads \cup {Free}]
        BY <1>1, <1>13 DEF Die, TypeOK
      <3>3. deaths' \in 0 .. MaxDeaths /\ step' \in [Threads -> {"idle", "entering", "locking", "open", "saving", "leaving"}]
        BY <1>1, <1>13, StateFilesAssumption DEF Die, TypeOK
      <3> QED BY <1>1, <1>13, <3>1, <3>2, <3>3 DEF Die, TypeOK
    <2> QED
      BY <1>13, <2>1, EmptySeq, StateFilesAssumption
      DEF Die, Isolation, TypeOK, Exclusive, Nesting, LoadedIsCurrent, Counted
  <1>14. CASE UNCHANGED vars
    BY <1>14 DEF vars, locks, Isolation, TypeOK, Exclusive, Nesting, LoadedIsCurrent, Counted
  <1> QED
    BY <1>2, <1>3, <1>4, <1>5, <1>6, <1>7, <1>8, <1>9, <1>10, <1>11, <1>12, <1>13, <1>14
    DEF Next, Steps

-----------------------------------------------------------------------------
(* The theorems.                                                            *)

\* Open transactions belong to the holder of the lock file, nest in one way and have the
\* current document.
THEOREM IsolationHolds == Spec => []Isolation
  BY IsolationInit, IsolationStep, PTL DEF Spec

\* Type correctness of the files, the locks and the open transactions.
THEOREM TypeCorrect == Spec => []TypeOK
  <1>1. Isolation => TypeOK
    BY DEF Isolation
  <1> QED BY IsolationHolds, <1>1, PTL

\* The lock file isolates transactions: between load and end of a transaction, nested ones
\* included, no other thread or process changes its document.
THEOREM TransactionsAreIsolated == Spec => []LoadedIsCurrent
  <1>1. Isolation => LoadedIsCurrent
    BY DEF Isolation
  <1> QED BY IsolationHolds, <1>1, PTL

\* Every transaction of registry() and registry_lock() takes effect in one step or not at
\* all, and no update is lost, whichever bodies raise and whichever processes die.
THEOREM FilesAreAtomic == Spec => IsAtomicStore
  <1>1. Init => Store!Init
    BY DEF Init, Store!Init
  <1>2. Isolation /\ [Next]_vars => [\E d \in Documents, u \in 1 .. MaxUpdates : Store!Commit(d, u)]_disk
    <2> SUFFICES ASSUME Isolation, Next, disk' # disk
                 PROVE  \E d \in Documents, u \in 1 .. MaxUpdates : Store!Commit(d, u)
      BY DEF vars
    <2>1. PICK t \in Threads : Replace(t) \/ Checkpoint(t)
      BY DEF Next, Steps, Begin, Enter, Lock, LockFails, Nest, WriteTemporary, ReadOnly, Raise, Leave, Die
    <2>2. open[t] # <<>>
      BY <2>1 DEF Replace, Checkpoint, Isolation, Exclusive
    <2>3. /\ updates < MaxUpdates /\ updates' = updates + 1
          /\ disk' = [disk EXCEPT ![Last(open[t]).document] = Last(open[t]).loaded \cup {updates'}]
      BY <2>1 DEF Replace, Checkpoint
    <2> QED BY <2>2, <2>3, WriteCommits
  <1> QED
    BY <1>1, <1>2, IsolationHolds, PTL DEF Spec, IsAtomicStore, Store!Spec

-----------------------------------------------------------------------------
(* The files of an inbox (InboxFiles).                                      *)

\* A message is being stored.
Storing == phase \in {"moving", "committed", "undoing"}

\* A message is being stored for the first time. Only messages that were stored, or that a
\* failure left behind, have files, or were read.
NewMessage ==
    /\ Storing <=> message # NoMessage
    /\ message \notin stored \cup cut
    /\ phase \in {"moving", "committed"} => message \notin broken
    /\ \A f \in Files : place[f] # "none" => f[2] \in stored \cup cut \cup broken \cup {message}
    /\ Read \subseteq stored \cup cut \cup broken

\* Whole messages make room, that were read; an attachment goes before its envelope and comes
\* back after it.
Room ==
    /\ phase = "idle" => todo = {} /\ moved = {}
    /\ phase \in {"moving", "deleting"} => todo \subseteq Inbox
    /\ phase \in {"moving", "deleting"} => \A m \in Messages :
          Envelope(m) \in todo /\ Attachment(m) \in Inbox => Attachment(m) \in todo
    /\ phase = "moving" => \A f \in todo : f[2] \in Read /\ Envelope(f[2]) \in Inbox
    /\ phase = "deleting" => moved = {} /\ \A f \in todo : f[2] \in gone
    /\ \A f \in moved : f[2] \in Read /\ f[2] # message /\ Envelope(f[2]) \in Inbox \cup moved
    /\ phase \in {"moving", "committed"} => \A f \in moved : place[f] = "kept"
    /\ \A f \in FilesOf(message) : place[f] # "kept"
    /\ phase = "committed" => todo = {} /\ FilesOf(message) \subseteq Inbox

\* What is not taken back yet is still to be taken back, or known to be broken.
TakingBack ==
    phase = "undoing" =>
        /\ todo \subseteq moved \cup FilesOf(message)
        /\ \A f \in FilesOf(message) \ todo : place[f] = "none" \/ message \in broken
        /\ \A f \in moved \ todo : place[f] = "inbox" \/ f[2] \in broken

\* The inbox is what it was, but for the files that moved and those of the new message.
InboxAccount ==
    Storing =>
        /\ moved \subseteq before /\ before \cap FilesOf(message) = {}
        /\ phase \in {"moving", "committed"} => Inbox \ FilesOf(message) = before \ moved
        /\ phase = "undoing" /\ message \notin broken => Inbox \ FilesOf(message) = before \ (moved \cap todo)

FilesInv == NewMessage /\ Room /\ TakingBack /\ InboxAccount /\ NothingLost /\ FilesAreTogether

-----------------------------------------------------------------------------
(* One file and one step at a time.                                          *)

\* The two files of a message differ, and belong to no other.
LEMMA FileNames ==
    /\ \A f \in Files : f[2] \in Messages /\ f \in {Envelope(f[2]), Attachment(f[2])}
    /\ \A m \in Messages : Envelope(m) \in Files /\ Envelope(m)[2] = m /\ Attachment(m)[2] = m
    /\ \A m, o : Envelope(m) # Attachment(o)
    /\ \A f \in Files : f \in FilesOf(f[2]) /\ \A m : f \in FilesOf(m) => f[2] = m
    /\ \A m : FilesOf(m) \subseteq Files
  BY DEF Files, Envelope, Attachment, FilesOf

\* What becomes of the inbox when one file moves.
LEMMA PutEffect ==
    ASSUME FilesTypeOK, NEW f \in Files, NEW p \in {"none", "inbox", "kept"}, Put(f, p)
    PROVE  /\ place' \in [Files -> {"none", "inbox", "kept"}]
           /\ place'[f] = p /\ \A g \in Files \ {f} : place'[g] = place[g]
           /\ Inbox' = IF p = "inbox" THEN Inbox \cup {f} ELSE Inbox \ {f}
  <1>1. place \in [Files -> {"none", "inbox", "kept"}]
    BY DEF FilesTypeOK
  <1>2. /\ place' \in [Files -> {"none", "inbox", "kept"}]
        /\ place'[f] = p /\ \A g \in Files \ {f} : place'[g] = place[g]
    BY <1>1 DEF Put
  <1>3. \A g : g \in Inbox' <=> g \in Files /\ place'[g] = "inbox"
    BY DEF Inbox
  <1>4. \A g : g \in Inbox <=> g \in Files /\ place[g] = "inbox"
    BY DEF Inbox
  <1> QED BY <1>2, <1>3, <1>4

\* The first, or the last, of some files.
LEMMA FirstAndLast ==
    ASSUME NEW set \in SUBSET Files, NEW f \in set
    PROVE  /\ IsFirst(f, set) /\ f = Envelope(f[2]) => Attachment(f[2]) \notin set
           /\ IsLast(f, set) /\ f = Attachment(f[2]) => Envelope(f[2]) \notin set
  BY DEF IsFirst, IsLast, Earlier, Envelope, Attachment, Files

\* Every step keeps the types.
LEMMA FilesTypes ==
    ASSUME FilesTypeOK, NewMessage, [FilesNext]_filesVars
    PROVE  FilesTypeOK'
  <1> USE InboxFilesAssumption
  <1> DEFINE Sets == /\ \A s \in {todo', moved', before'} : s \subseteq Files
                     /\ \A s \in {stored', gone', cut', broken'} : s \subseteq Messages
                     /\ message' \in Messages \cup {NoMessage} /\ ended' \subseteq Sessions /\ ends' \subseteq Sessions
                     /\ phase' \in {"idle", "moving", "committed", "undoing", "deleting"}
  <1>0. /\ \A s \in {todo, moved, before} : s \subseteq Files
        /\ \A s \in {stored, gone, cut, broken} : s \subseteq Messages
        /\ message \in Messages \cup {NoMessage} /\ ended \subseteq Sessions /\ ends \subseteq Sessions
        /\ phase \in {"idle", "moving", "committed", "undoing", "deleting"}
        /\ Inbox \subseteq Files /\ Undoes \subseteq Files
    BY FileNames DEF FilesTypeOK, Inbox, Undoes
  <1>1. place' \in [Files -> {"none", "inbox", "kept"}]
    <2>1. CASE UNCHANGED place
      BY <2>1 DEF FilesTypeOK
    <2>2. ASSUME NEW f \in Files, Move(f) \/ PutNew(f) \/ Undo(f) \/ Unlink(f)
          PROVE  UNCHANGED place \/ \E p \in {"none", "inbox", "kept"} : Put(f, p)
      BY <2>2 DEF Move, PutNew, Undo, Unlink
    <2>3. ASSUME NEW left, CleanUp(left) PROVE place' \in [Files -> {"none", "inbox", "kept"}]
      BY <2>3 DEF CleanUp, FilesTypeOK
    <2>4. ASSUME NEW m \in Messages,
                 (\E oldest \in SUBSET Read : BeginWrite(m, oldest)) \/ ReadMessage(m) \/ DeleteMessage(m)
          PROVE  UNCHANGED place
      BY <2>4 DEF BeginWrite, ReadMessage, DeleteMessage, BeginDelete
    <2>5. ASSUME NEW s \in Sessions, Purge(s) PROVE UNCHANGED place
      BY <2>5 DEF Purge, BeginDelete
    <2>6. Fail \/ Undone \/ Deleted \/ DeleteFails \/ Crash \/ UNCHANGED filesVars => UNCHANGED place
      BY DEF Fail, Undone, Deleted, DeleteFails, Crash, filesVars
    <2> QED BY <2>1, <2>2, <2>3, <2>4, <2>5, <2>6, PutEffect DEF FilesNext
  <1>2. readOrder' \in Seq(Messages) /\ IsInjective(readOrder')
    <2>1. CASE UNCHANGED readOrder
      BY <2>1 DEF FilesTypeOK
    <2>2. ASSUME NEW m \in Messages, ReadMessage(m) PROVE readOrder' \in Seq(Messages) /\ IsInjective(readOrder')
      <3>1. readOrder \in Seq(Messages) /\ readOrder' = Append(readOrder, m) /\ m \notin {readOrder[i] : i \in DOMAIN readOrder}
        BY <2>2 DEF ReadMessage, Read, ToSet, FilesTypeOK
      <3>2. \A i, j \in DOMAIN readOrder : readOrder[i] = readOrder[j] => i = j
        BY DEF FilesTypeOK, IsInjective
      <3>3. \A i, j \in DOMAIN readOrder' : readOrder'[i] = readOrder'[j] => i = j
        BY <3>1, <3>2
      <3> QED BY <3>1, <3>3 DEF IsInjective
    <2>3. ASSUME NEW f \in Files, Move(f) \/ PutNew(f) \/ Undo(f) \/ Unlink(f) PROVE UNCHANGED readOrder
      BY <2>3 DEF Move, PutNew, Undo, Unlink
    <2>4. ASSUME NEW m \in Messages, (\E oldest \in SUBSET Read : BeginWrite(m, oldest)) \/ DeleteMessage(m)
          PROVE  UNCHANGED readOrder
      BY <2>4 DEF BeginWrite, DeleteMessage, BeginDelete
    <2>5. ASSUME NEW s, Purge(s) \/ CleanUp(s) PROVE UNCHANGED readOrder
      BY <2>5 DEF Purge, BeginDelete, CleanUp
    <2>6. Fail \/ Undone \/ Deleted \/ DeleteFails \/ Crash \/ UNCHANGED filesVars => UNCHANGED readOrder
      BY DEF Fail, Undone, Deleted, DeleteFails, Crash, filesVars
    <2> QED BY <2>1, <2>2, <2>3, <2>4, <2>5, <2>6 DEF FilesNext
  <1>3. Sets
    <2>1. ASSUME NEW f \in Files, Move(f) \/ Unlink(f) PROVE Sets
      BY <1>0, <2>1 DEF Move, Unlink, past
    <2>2. ASSUME NEW f \in Files, PutNew(f) PROVE Sets
      BY <1>0, <2>2 DEF PutNew, past
    <2>3. ASSUME NEW f \in Files, Undo(f) PROVE Sets
      <3>1. f[2] \in Messages /\ message \in Messages
        BY <1>0, <2>3, FileNames DEF Undo, NewMessage, Storing
      <3>2. broken' \subseteq Messages
        BY <1>0, <2>3, <3>1 DEF Undo
      <3> QED BY <1>0, <2>3, <3>2 DEF Undo
    <2>4. ASSUME NEW m \in Messages, NEW oldest \in SUBSET Read, BeginWrite(m, oldest) PROVE Sets
      BY <1>0, <2>4 DEF BeginWrite, past
    <2>5. ASSUME NEW m \in Messages, ReadMessage(m) PROVE Sets
      BY <1>0, <2>5 DEF ReadMessage, past, job
    <2>6. ASSUME NEW ms \in SUBSET Messages, NEW ss \in SUBSET Sessions, BeginDelete(ms, ss) PROVE Sets
      BY <1>0, <2>6 DEF BeginDelete
    <2>7. ASSUME NEW m \in Messages, DeleteMessage(m) PROVE Sets
      BY <2>6, <2>7 DEF DeleteMessage
    <2>8. ASSUME NEW s \in Sessions, Purge(s) PROVE Sets
      <3>1. PICK ms \in SUBSET Messages : BeginDelete(ms, {s})
        BY <2>8 DEF Purge
      <3> QED BY <2>6, <3>1
    <2>9. ASSUME NEW left \in SUBSET moved, CleanUp(left) PROVE Sets
      <3>1. message \in Messages /\ {f[2] : f \in moved} \subseteq Messages
        BY <1>0, <2>9, FileNames DEF CleanUp, NewMessage, Storing
      <3> QED BY <1>0, <2>9, <3>1 DEF CleanUp, Done
    <2>10. CASE Fail
      BY <1>0, <2>10 DEF Fail, past
    <2>11. CASE Undone \/ Deleted \/ DeleteFails
      BY <1>0, <2>11 DEF Undone, Deleted, DeleteFails, Done, past
    <2>12. CASE Crash
      BY <1>0, <2>12 DEF Crash, Done
    <2>13. CASE UNCHANGED filesVars
      BY <1>0, <2>13 DEF filesVars, job, past
    <2> QED BY <2>1, <2>2, <2>3, <2>4, <2>5, <2>7, <2>8, <2>9, <2>10, <2>11, <2>12, <2>13 DEF FilesNext
  <1> QED BY <1>1, <1>2, <1>3 DEF FilesTypeOK

\* What is assumed of a step of the invariant.
FilesStep == FilesTypeOK /\ FilesInv /\ [FilesNext]_filesVars

\* Reading marks one message as read and moves no file.
LEMMA ReadEffect ==
    ASSUME FilesTypeOK, NEW m \in Messages, ReadMessage(m)
    PROVE  Read' = Read \cup {m} /\ UNCHANGED <<place, ended, job, past>> /\ Inbox' = Inbox
  <1>1. readOrder \in Seq(Messages) /\ readOrder' = Append(readOrder, m)
    BY DEF ReadMessage, FilesTypeOK
  <1>2. DOMAIN readOrder' = DOMAIN readOrder \cup {Len(readOrder) + 1}
    BY <1>1
  <1>3. readOrder'[Len(readOrder) + 1] = m /\ \A i \in DOMAIN readOrder : readOrder'[i] = readOrder[i]
    BY <1>1
  <1>4. Read' = Read \cup {m}
    BY <1>2, <1>3 DEF Read, ToSet
  <1> QED BY <1>4 DEF ReadMessage, Inbox

\* Only a new message, and what comes back, is put on disk.
LEMMA NewMessageStep ==
    ASSUME FilesStep
    PROVE  NewMessage'
  <1> USE InboxFilesAssumption DEF FilesStep, Storing
  <1>0. /\ FilesTypeOK /\ NewMessage /\ Room /\ TakingBack
        /\ stored \subseteq Messages /\ cut \subseteq Messages /\ message \in Messages \cup {NoMessage}
    BY DEF FilesInv, FilesTypeOK
  <1>1. ASSUME NEW m \in Messages, NEW oldest \in SUBSET Read, BeginWrite(m, oldest) PROVE NewMessage'
    <2>1. /\ m # NoMessage /\ m \notin stored \cup cut \cup broken /\ message = NoMessage
          /\ phase' = "moving" /\ message' = m /\ UNCHANGED <<place, readOrder, stored, cut, broken>>
      BY <1>0, <1>1 DEF BeginWrite, NewMessage, past
    <2>2. \A f \in Files : place'[f] # "none" => f[2] \in stored' \cup cut' \cup broken'
      BY <1>0, <2>1, FileNames DEF NewMessage
    <2>3. Read' \subseteq stored' \cup cut' \cup broken'
      BY <1>0, <2>1 DEF NewMessage, Read
    <2> QED BY <2>1, <2>2, <2>3 DEF NewMessage
  <1>2. ASSUME NEW m \in Messages, ReadMessage(m) PROVE NewMessage'
    <2>1. m \in stored \cup cut \cup broken
      BY <1>0, <1>2, FileNames DEF ReadMessage, NewMessage, Inbox
    <2> QED BY <1>0, <1>2, <2>1, ReadEffect DEF NewMessage, job, past
  <1>3. ASSUME NEW ms, NEW ss, BeginDelete(ms, ss) PROVE NewMessage'
    BY <1>0, <1>3 DEF BeginDelete, NewMessage, Read
  <1>4. ASSUME NEW f \in Files, Move(f) PROVE NewMessage'
    <2>1. place[f] = "inbox" /\ Put(f, "kept")
      BY <1>4, <1>0 DEF Move, IsFirst, Room, Inbox
    <2> QED BY <1>0, <1>4, <2>1, PutEffect DEF Move, NewMessage, Read, past
  <1>5. ASSUME NEW f \in Files, PutNew(f) PROVE NewMessage'
    <2>1. f[2] = message /\ Put(f, "inbox")
      BY <1>5, FileNames DEF PutNew, IsFirst
    <2> QED BY <1>0, <1>5, <2>1, PutEffect DEF PutNew, NewMessage, Read, past
  <1>6. ASSUME NEW f \in Files, Undo(f) PROVE NewMessage'
    <2>1. f[2] = message \/ f[2] \in Read
      BY <1>0, <1>6, FileNames DEF Undo, IsLast, Room, TakingBack
    <2>2. CASE UNCHANGED place
      BY <1>0, <1>6, <2>2 DEF Undo, NewMessage, Read
    <2>3. CASE Put(f, IF f[2] = message THEN "none" ELSE "inbox") /\ UNCHANGED broken
      BY <1>0, <1>6, <2>1, <2>3, PutEffect DEF Undo, NewMessage, Read
    <2> QED BY <1>6, <2>2, <2>3 DEF Undo
  <1>7. ASSUME NEW f \in Files, Unlink(f) PROVE NewMessage'
    BY <1>0, <1>7, PutEffect DEF Unlink, NewMessage, Read, past
  <1>8. ASSUME NEW left \in SUBSET moved, CleanUp(left) PROVE NewMessage'
    <2>1. \A f \in Files : place'[f] # "none" => place[f] # "none"
      BY <1>8 DEF CleanUp
    <2> QED BY <1>0, <1>8, <2>1 DEF CleanUp, Done, NewMessage, Read
  <1>9. CASE Fail
    BY <1>0, <1>9 DEF Fail, NewMessage, Read, past
  <1>10. CASE Undone
    <2>1. \A f \in Files : place[f] # "none" /\ f[2] = message => message \in broken
      BY <1>0, <1>10, FileNames DEF Undone, TakingBack
    <2> QED BY <1>0, <1>10, <2>1 DEF Undone, Done, NewMessage, Read, past
  <1>11. CASE Deleted \/ DeleteFails
    BY <1>0, <1>11 DEF Deleted, DeleteFails, Done, NewMessage, Read, past
  <1>12. CASE Crash
    BY <1>0, <1>12 DEF Crash, Done, NewMessage, Read
  <1>13. CASE UNCHANGED filesVars
    BY <1>0, <1>13 DEF filesVars, job, past, NewMessage, Read
  <1>14. ASSUME NEW s, (\E m \in Messages : DeleteMessage(m)) \/ Purge(s) PROVE NewMessage'
    BY <1>3, <1>14 DEF DeleteMessage, Purge
  <1> QED
    BY <1>1, <1>2, <1>4, <1>5, <1>6, <1>7, <1>8, <1>9, <1>10, <1>11, <1>12, <1>13, <1>14 DEF FilesNext

\* The new files never make room.
LEMMA NewIsNotMoved ==
    ASSUME FilesStep
    PROVE  \A f \in FilesOf(message') : place'[f] # "kept"
  <1> USE InboxFilesAssumption DEF FilesStep, Storing
  <1> DEFINE NotKept == \A f \in FilesOf(message') : place'[f] # "kept"
             OnlyMoved == \A f \in Files : place'[f] = "kept" => place[f] = "kept"
  <1>0. FilesTypeOK /\ NewMessage /\ Room /\ todo \subseteq Files
    BY DEF FilesInv, FilesTypeOK
  <1>a. OnlyMoved /\ message' \in {message, NoMessage} => NotKept
    BY <1>0, FileNames DEF Room
  <1>b. UNCHANGED place => OnlyMoved
    OBVIOUS
  <1> HIDE DEF OnlyMoved
  <1>1. ASSUME NEW m \in Messages, NEW oldest, BeginWrite(m, oldest) PROVE NotKept
    <2>1. UNCHANGED place /\ message' = m /\ m \notin stored \cup cut \cup broken \cup {message}
      BY <1>0, <1>1 DEF BeginWrite, NewMessage
    <2> QED BY <1>0, <2>1, FileNames DEF NewMessage
  <1>2. ASSUME NEW m, ReadMessage(m) \/ DeleteMessage(m) \/ Purge(m) PROVE NotKept
    BY <1>a, <1>b, <1>2 DEF ReadMessage, DeleteMessage, Purge, BeginDelete, job
  <1>3. ASSUME NEW f \in Files, Move(f) PROVE NotKept
    <2>1. f[2] # message /\ message' = message /\ Put(f, "kept")
      BY <1>0, <1>3 DEF Move, IsFirst, Room, NewMessage
    <2> QED BY <1>0, <2>1, PutEffect, FileNames DEF Room
  <1>4. ASSUME NEW f \in Files, PutNew(f) \/ Undo(f) \/ Unlink(f) PROVE NotKept
    <2>1. message' = message /\ (UNCHANGED place \/ \E p \in {"none", "inbox"} : Put(f, p))
      BY <1>4 DEF PutNew, Undo, Unlink
    <2>2. OnlyMoved
      BY <1>0, <1>b, <2>1, PutEffect DEF OnlyMoved
    <2> QED BY <1>a, <2>1, <2>2
  <1>5. ASSUME NEW left, CleanUp(left) PROVE NotKept
    <2>1. OnlyMoved /\ message' = NoMessage
      BY <1>5 DEF CleanUp, Done, OnlyMoved
    <2> QED BY <1>a, <2>1
  <1>6. Fail \/ Undone \/ Deleted \/ DeleteFails \/ Crash \/ UNCHANGED filesVars => NotKept
    BY <1>a, <1>b DEF Fail, Undone, Deleted, DeleteFails, Crash, Done, filesVars, job
  <1> QED BY <1>1, <1>2, <1>3, <1>4, <1>5, <1>6 DEF FilesNext

\* Whole messages make room, in their order.
LEMMA RoomStep ==
    ASSUME FilesStep
    PROVE  Room'
  <1> USE InboxFilesAssumption DEF FilesStep, Storing
  <1>0. /\ FilesTypeOK /\ NewMessage /\ Room /\ Inbox \subseteq Files /\ message \in Messages \cup {NoMessage}
        /\ todo \subseteq Files /\ moved \subseteq Files
    BY DEF FilesInv, FilesTypeOK, Inbox
  <1>k. \A f \in FilesOf(message') : place'[f] # "kept"
    BY NewIsNotMoved
  <1>1. ASSUME NEW m \in Messages, NEW oldest \in SUBSET Read, BeginWrite(m, oldest) PROVE Room'
    <2>1. /\ todo' = {f \in Inbox : f[2] \in oldest} /\ phase' = "moving" /\ Inbox' = Inbox /\ Read' = Read
          /\ moved' = {}
      BY <1>0, <1>1 DEF BeginWrite, Room, Inbox, Read
    <2>2. \A o \in oldest : o \in Read /\ Envelope(o) \in Inbox
      BY <1>1 DEF BeginWrite, Retirable
    <2>3. \A o \in Messages : Envelope(o)[2] = o /\ Attachment(o)[2] = o
      BY FileNames
    <2> QED BY <1>k, <2>1, <2>2, <2>3 DEF Room
  <1>2. ASSUME NEW m \in Messages, ReadMessage(m) PROVE Room'
    BY <1>k, <1>0, <1>2, ReadEffect DEF ReadMessage, Room, job
  <1>3. ASSUME NEW ms, NEW ss, BeginDelete(ms, ss) PROVE Room'
    <2>1. /\ todo' = {f \in Inbox : f[2] \in ms} /\ phase' = "deleting" /\ Inbox' = Inbox /\ gone' = gone \cup ms
          /\ moved' = {}
      BY <1>0, <1>3 DEF BeginDelete, Room, Inbox
    <2>2. \A o \in Messages : Envelope(o)[2] = o /\ Attachment(o)[2] = o
      BY FileNames
    <2> QED BY <1>k, <2>1, <2>2 DEF Room
  <1>4. ASSUME NEW f \in Files, Move(f) PROVE Room'
    <2>1. /\ phase = "moving" /\ phase' = "moving" /\ f \in todo /\ todo' = todo \ {f} /\ moved' = moved \cup {f}
          /\ message' = message /\ Read' = Read /\ Put(f, "kept") /\ IsFirst(f, todo)
      BY <1>4 DEF Move, IsFirst, Read
    <2>2. Inbox' = Inbox \ {f} /\ place'[f] = "kept" /\ \A g \in Files \ {f} : place'[g] = place[g]
      BY <1>0, <2>1, PutEffect
    <2>3. f[2] \in Read /\ Envelope(f[2]) \in Inbox /\ f[2] # message /\ f[2] \in Messages
      BY <1>0, <2>1, FileNames DEF Room, NewMessage
    <2>4. \A g \in todo' : Envelope(g[2]) # f
      <3> SUFFICES ASSUME NEW g \in todo', Envelope(g[2]) = f PROVE FALSE
        OBVIOUS
      <3>1. g = Attachment(f[2])
        BY <1>0, <2>1, FileNames
      <3> QED BY <1>0, <2>1, <3>1, FileNames, FirstAndLast
    <2>5. \A g \in moved' : g[2] \in Read /\ g[2] # message /\ Envelope(g[2]) \in Inbox' \cup moved'
      BY <1>0, <2>1, <2>2, <2>3 DEF Room
    <2>6. \A g \in moved' : place'[g] = "kept"
      BY <1>0, <2>1, <2>2 DEF Room
    <2>7. \A g \in todo' : g[2] \in Read /\ Envelope(g[2]) \in Inbox'
      BY <1>0, <2>1, <2>2, <2>4 DEF Room
    <2>8. todo' \subseteq Inbox' /\ \A m \in Messages : Envelope(m) \in todo' /\ Attachment(m) \in Inbox' => Attachment(m) \in todo'
      BY <1>0, <2>1, <2>2 DEF Room
    <2> QED BY <1>k, <2>1, <2>5, <2>6, <2>7, <2>8 DEF Room
  <1>5. ASSUME NEW f \in Files, PutNew(f) PROVE Room'
    <2>1. /\ phase = "moving" /\ phase' \in {"moving", "committed"} /\ todo' = {} /\ moved' = moved
          /\ message' = message /\ Read' = Read /\ Put(f, "inbox") /\ f[2] = message
          /\ phase' = "committed" => FilesOf(message) \subseteq Inbox \cup {f}
      BY <1>5, FileNames DEF PutNew, IsFirst, Read
    <2>2. Inbox' = Inbox \cup {f} /\ \A g \in Files \ {f} : place'[g] = place[g]
      BY <1>0, <2>1, PutEffect
    <2>3. \A g \in moved' : place'[g] = "kept"
      BY <1>0, <2>1, <2>2 DEF Room
    <2>4. \A g \in moved' : g[2] \in Read /\ g[2] # message /\ Envelope(g[2]) \in Inbox' \cup moved'
      BY <1>0, <2>1, <2>2 DEF Room
    <2>5. phase' = "committed" => FilesOf(message') \subseteq Inbox'
      BY <2>1, <2>2
    <2> QED BY <1>k, <2>1, <2>3, <2>4, <2>5 DEF Room
  <1>6. ASSUME NEW f \in Files, Undo(f) PROVE Room'
    <2>1. phase' = "undoing" /\ moved' = moved /\ message' = message /\ Read' = Read
      BY <1>6 DEF Undo, Read
    <2>2. Inbox' = Inbox \/ (f[2] = message /\ Inbox' = Inbox \ {f}) \/ Inbox' = Inbox \cup {f}
      <3>1. CASE UNCHANGED place
        BY <3>1 DEF Inbox
      <3>2. CASE Put(f, IF f[2] = message THEN "none" ELSE "inbox")
        BY <1>0, <3>2, PutEffect
      <3> QED BY <1>6, <3>1, <3>2 DEF Undo
    <2>3. \A g \in moved : g[2] \in Messages /\ g[2] # message /\ Envelope(g[2])[2] = g[2]
      BY <1>0, FileNames DEF Room
    <2>4. \A g \in moved' : g[2] \in Read /\ g[2] # message /\ Envelope(g[2]) \in Inbox' \cup moved'
      BY <1>0, <2>1, <2>2, <2>3 DEF Room
    <2> QED BY <1>k, <2>1, <2>4 DEF Room
  <1>7. ASSUME NEW f \in Files, Unlink(f) PROVE Room'
    <2>1. /\ phase = "deleting" /\ phase' = "deleting" /\ todo' = todo \ {f} /\ moved' = moved /\ gone' = gone
          /\ Put(f, "none")
      BY <1>7 DEF Unlink, past
    <2>2. Inbox' = Inbox \ {f}
      BY <1>0, <2>1, PutEffect
    <2> QED BY <1>k, <1>0, <2>1, <2>2 DEF Room
  <1>8. ASSUME NEW left \in SUBSET moved, CleanUp(left) PROVE Room'
    BY <1>k, <1>8 DEF CleanUp, Done, Room
  <1>9. CASE Fail
    <2>1. phase' = "undoing" /\ moved' = moved /\ message' = message /\ Read' = Read /\ Inbox' = Inbox
      BY <1>9 DEF Fail, Read, Inbox
    <2> QED BY <1>k, <1>0, <2>1 DEF Room
  <1>10. CASE Undone \/ Deleted \/ DeleteFails \/ Crash
    BY <1>k, <1>10 DEF Undone, Deleted, DeleteFails, Crash, Done, Room
  <1>11. CASE UNCHANGED filesVars
    <2>1. Inbox' = Inbox /\ Read' = Read /\ UNCHANGED <<place, phase, message, todo, moved, gone>>
      BY <1>11 DEF filesVars, job, past, Inbox, Read
    <2> QED BY <1>k, <1>0, <2>1 DEF Room
  <1>12. ASSUME NEW s, (\E m \in Messages : DeleteMessage(m)) \/ Purge(s) PROVE Room'
    BY <1>3, <1>12 DEF DeleteMessage, Purge
  <1> QED
    BY <1>1, <1>2, <1>4, <1>5, <1>6, <1>7, <1>8, <1>9, <1>10, <1>11, <1>12 DEF FilesNext

\* Nothing is taken back that has not changed, and whatever has is tried.
LEMMA TakingBackStep ==
    ASSUME FilesStep
    PROVE  TakingBack'
  <1> USE DEF FilesStep, Storing
  <1>0. /\ FilesTypeOK /\ NewMessage /\ Room /\ TakingBack
        /\ todo \subseteq Files /\ moved \subseteq Files /\ place \in [Files -> {"none", "inbox", "kept"}]
    BY DEF FilesInv, FilesTypeOK
  <1>1. CASE Fail
    <2>1. /\ phase' = "undoing" /\ todo' = Undoes /\ UNCHANGED <<place, message, moved, broken>>
          /\ phase \in {"moving", "committed"}
      BY <1>1 DEF Fail, past
    <2>2. \A f \in FilesOf(message) \ todo' : place[f] = "none"
      <3> SUFFICES ASSUME NEW f \in FilesOf(message), f \notin todo' PROVE place[f] = "none"
        OBVIOUS
      <3>1. f \in Files /\ f \notin Inbox
        BY <2>1, FileNames DEF Undoes
      <3> QED BY <1>0, <3>1 DEF Inbox, Room
    <2> QED BY <2>1, <2>2 DEF TakingBack, Undoes
  <1>2. ASSUME NEW f \in Files, Undo(f) PROVE TakingBack'
    <2>1. /\ phase = "undoing" /\ f \in todo /\ todo' = todo \ {f} /\ UNCHANGED <<message, moved>>
      BY <1>2 DEF Undo, IsLast
    <2>2. /\ f[2] = message => f \in FilesOf(message)
          /\ \A g \in FilesOf(message) : g \in Files /\ g[2] = message
          /\ \A g \in moved : g \in Files /\ g[2] # message
      BY <1>0, FileNames DEF Room
    <2>3. /\ place'[f] = (IF f[2] = message THEN "none" ELSE "inbox") \/ {message, f[2]} \subseteq broken'
          /\ \A g \in Files \ {f} : place'[g] = place[g]
          /\ broken \subseteq broken'
      <3>1. CASE UNCHANGED place /\ broken' = broken \cup {message, f[2]}
        BY <3>1
      <3>2. CASE Put(f, IF f[2] = message THEN "none" ELSE "inbox") /\ UNCHANGED broken
        BY <1>0, <3>2, PutEffect
      <3> QED BY <1>2, <3>1, <3>2 DEF Undo
    <2>4. \A g \in FilesOf(message) \ todo' : place'[g] = "none" \/ message \in broken'
      BY <1>0, <2>1, <2>2, <2>3 DEF TakingBack
    <2>5. \A g \in moved \ todo' : place'[g] = "inbox" \/ g[2] \in broken'
      BY <1>0, <2>1, <2>2, <2>3 DEF TakingBack
    <2> QED BY <1>0, <2>1, <2>4, <2>5 DEF TakingBack
  <1>3. ASSUME NEW m \in Messages,
               (\E oldest \in SUBSET Read : BeginWrite(m, oldest)) \/ ReadMessage(m) \/ DeleteMessage(m)
        PROVE  phase' # "undoing"
    BY <1>3 DEF BeginWrite, ReadMessage, DeleteMessage, BeginDelete, job
  <1>4. ASSUME NEW f \in Files, Move(f) \/ PutNew(f) \/ Unlink(f) PROVE phase' # "undoing"
    BY <1>4 DEF Move, PutNew, Unlink
  <1>5. ASSUME NEW s, CleanUp(s) \/ Purge(s) PROVE phase' # "undoing"
    BY <1>5 DEF CleanUp, Done, Purge, BeginDelete
  <1>6. Undone \/ Deleted \/ DeleteFails \/ Crash => phase' # "undoing"
    BY DEF Undone, Deleted, DeleteFails, Crash, Done
  <1>7. UNCHANGED filesVars => TakingBack'
    BY <1>0 DEF filesVars, job, past, TakingBack
  <1> QED BY <1>1, <1>2, <1>3, <1>4, <1>5, <1>6, <1>7 DEF FilesNext, TakingBack

\* The inbox is accounted for.
LEMMA InboxAccountStep ==
    ASSUME FilesStep
    PROVE  InboxAccount'
  <1> USE InboxFilesAssumption DEF FilesStep, Storing
  <1>0. /\ FilesTypeOK /\ NewMessage /\ Room /\ TakingBack /\ InboxAccount
        /\ todo \subseteq Files /\ moved \subseteq Files /\ before \subseteq Files /\ Inbox \subseteq Files
    BY DEF FilesInv, FilesTypeOK, Inbox
  <1>n. \A f \in Files : f \in FilesOf(message) <=> f[2] = message
    BY DEF FilesOf
  <1>1. ASSUME NEW m \in Messages, NEW oldest, BeginWrite(m, oldest) PROVE InboxAccount'
    <2>1. /\ moved = {} /\ m \notin stored \cup cut \cup broken \cup {message}
          /\ moved' = moved /\ message' = m /\ before' = Inbox /\ Inbox' = Inbox /\ phase' = "moving"
      BY <1>0, <1>1 DEF BeginWrite, Room, NewMessage, Inbox
    <2>2. Inbox \cap FilesOf(m) = {}
      BY <1>0, <2>1, FileNames DEF NewMessage, Inbox
    <2> QED BY <2>1, <2>2 DEF InboxAccount
  <1>2. ASSUME NEW f \in Files, Move(f) PROVE InboxAccount'
    <2>1. /\ phase = "moving" /\ phase' = "moving" /\ f \in Inbox /\ f[2] # message
          /\ moved' = moved \cup {f} /\ message' = message /\ before' = before /\ Put(f, "kept")
      BY <1>0, <1>2 DEF Move, IsFirst, Room, NewMessage
    <2>2. Inbox' = Inbox \ {f}
      BY <1>0, <2>1, PutEffect
    <2>3. f \in Inbox \ FilesOf(message)
      BY <1>n, <2>1
    <2> QED BY <1>0, <2>1, <2>2, <2>3 DEF InboxAccount
  <1>3. ASSUME NEW f \in Files, PutNew(f) PROVE InboxAccount'
    <2>1. /\ phase = "moving" /\ phase' \in {"moving", "committed"} /\ f \in FilesOf(message)
          /\ UNCHANGED <<moved, message, before>> /\ Put(f, "inbox")
      BY <1>3 DEF PutNew, IsFirst
    <2>2. Inbox' = Inbox \cup {f}
      BY <1>0, <2>1, PutEffect
    <2> QED BY <1>0, <2>1, <2>2 DEF InboxAccount
  <1>4. ASSUME NEW f \in Files, Undo(f) PROVE InboxAccount'
    <2>1. /\ phase = "undoing" /\ phase' = "undoing" /\ f \in todo /\ todo' = todo \ {f}
          /\ UNCHANGED <<moved, message, before>>
      BY <1>4 DEF Undo, IsLast
    <2>2. CASE message \in broken'
      BY <1>0, <2>1, <2>2 DEF InboxAccount
    <2>3. CASE message \notin broken'
      <3>1. Put(f, IF f[2] = message THEN "none" ELSE "inbox") /\ broken' = broken
        BY <1>4, <2>3 DEF Undo
      <3>2. Inbox' = IF f[2] = message THEN Inbox \ {f} ELSE Inbox \cup {f}
        BY <1>0, <3>1, PutEffect
      <3>3. Inbox \ FilesOf(message) = before \ (moved \cap todo)
        BY <1>0, <2>1, <2>3, <3>1 DEF InboxAccount
      <3>4. IF f[2] = message THEN f \in FilesOf(message) /\ f \notin before /\ f \notin moved
                              ELSE f \notin FilesOf(message) /\ f \in moved /\ f \in before
        BY <1>0, <1>n, <2>1 DEF TakingBack, InboxAccount
      <3>5. Inbox' \ FilesOf(message) = before \ (moved \cap todo')
        BY <2>1, <3>2, <3>3, <3>4
      <3> QED BY <1>0, <2>1, <3>5 DEF InboxAccount
    <2> QED BY <2>2, <2>3
  <1>5. CASE Fail
    <2>1. /\ phase \in {"moving", "committed"} /\ phase' = "undoing" /\ moved \subseteq todo'
          /\ UNCHANGED <<moved, message, before>> /\ Inbox' = Inbox
      BY <1>5 DEF Fail, Undoes, Inbox
    <2> QED BY <1>0, <2>1 DEF InboxAccount
  <1>6. CASE UNCHANGED filesVars
    <2>1. Inbox' = Inbox /\ UNCHANGED <<phase, message, todo, moved, before, broken>>
      BY <1>6 DEF filesVars, job, past, Inbox
    <2> QED BY <1>0, <2>1 DEF InboxAccount
  <1>7. ASSUME NEW f \in Files, Unlink(f) PROVE ~Storing'
    BY <1>7 DEF Unlink
  <1>8. ASSUME NEW s, DeleteMessage(s) \/ Purge(s) \/ ReadMessage(s) \/ CleanUp(s) PROVE ~Storing'
    BY <1>8 DEF DeleteMessage, Purge, BeginDelete, ReadMessage, CleanUp, Done, job
  <1>9. Undone \/ Deleted \/ DeleteFails \/ Crash => ~Storing'
    BY DEF Undone, Deleted, DeleteFails, Crash, Done
  <1> QED BY <1>1, <1>2, <1>3, <1>4, <1>5, <1>6, <1>7, <1>8, <1>9 DEF FilesNext, InboxAccount

\* A file of a message that was stored, and was not deleted or retired, stays on disk.
LEMMA NothingLostStep ==
    ASSUME FilesStep
    PROVE  NothingLost'
  <1> USE InboxFilesAssumption DEF FilesStep, Storing
  <1>0. /\ FilesTypeOK /\ NewMessage /\ Room /\ NothingLost
        /\ todo \subseteq Files /\ moved \subseteq Files /\ stored \subseteq Messages
    BY DEF FilesInv, FilesTypeOK
  <1> DEFINE Stays(f) == f \in Files /\ f[2] \in stored \ gone' => place[f] = "none" \/ place'[f] # "none"
  <1>a. stored' = stored /\ gone \subseteq gone' /\ (\A f : Stays(f)) => NothingLost'
    BY <1>0, FileNames DEF NothingLost
  <1>b. UNCHANGED place => \A f : Stays(f)
    OBVIOUS
  <1> HIDE DEF Stays
  <1>1. ASSUME NEW m, (\E oldest : BeginWrite(m, oldest)) \/ ReadMessage(m) \/ DeleteMessage(m) \/ Purge(m)
        PROVE  NothingLost'
    <2>1. stored' = stored /\ gone \subseteq gone' /\ UNCHANGED place
      BY <1>1 DEF BeginWrite, ReadMessage, DeleteMessage, Purge, BeginDelete, past
    <2> QED BY <1>a, <1>b, <2>1
  <1>2. ASSUME NEW f \in Files, Move(f) \/ PutNew(f) PROVE NothingLost'
    <2>1. stored' = stored /\ gone' = gone /\ \E p \in {"inbox", "kept"} : Put(f, p)
      BY <1>2 DEF Move, PutNew, past
    <2>2. \A g : Stays(g)
      BY <1>0, <2>1, PutEffect DEF Stays
    <2> QED BY <1>a, <2>1, <2>2
  <1>3. ASSUME NEW f \in Files, Undo(f) PROVE NothingLost'
    <2>1. /\ stored' = stored /\ gone' = gone /\ message \notin stored
          /\ UNCHANGED place \/ Put(f, IF f[2] = message THEN "none" ELSE "inbox")
      BY <1>0, <1>3 DEF Undo, NewMessage
    <2>2. \A g : Stays(g)
      BY <1>0, <1>b, <2>1, PutEffect DEF Stays
    <2> QED BY <1>a, <2>1, <2>2
  <1>4. ASSUME NEW f \in Files, Unlink(f) PROVE NothingLost'
    <2>1. stored' = stored /\ gone' = gone /\ f[2] \in gone /\ Put(f, "none")
      BY <1>0, <1>4 DEF Unlink, Room, past
    <2>2. \A g : Stays(g)
      BY <1>0, <2>1, PutEffect DEF Stays
    <2> QED BY <1>a, <2>1, <2>2
  <1>5. ASSUME NEW left \in SUBSET moved, CleanUp(left) PROVE NothingLost'
    <2>1. /\ phase = "committed" /\ stored' = stored \cup {message} /\ gone \subseteq gone'
          /\ \A f \in moved : f[2] \in gone' /\ f[2] # message
          /\ \A f \in Files \ moved : place'[f] = place[f]
      BY <1>0, <1>5 DEF CleanUp, Room
    <2>2. \A f \in FilesOf(message) : place[f] = "inbox" /\ f \notin moved /\ f \in Files
      BY <1>0, <2>1, FileNames DEF Room, Inbox
    <2>3. \A m \in stored \ gone' : \A f \in FilesOf(m) : place[f] # "none" /\ f \notin moved /\ f \in Files
      BY <1>0, <2>1, FileNames DEF NothingLost
    <2> QED BY <2>1, <2>2, <2>3 DEF NothingLost
  <1>6. CASE Fail \/ Undone \/ Deleted \/ DeleteFails \/ Crash \/ UNCHANGED filesVars
    <2>1. stored' = stored /\ gone' = gone /\ UNCHANGED place
      BY <1>6 DEF Fail, Undone, Deleted, DeleteFails, Crash, filesVars, past
    <2> QED BY <1>a, <1>b, <2>1
  <1> QED BY <1>1, <1>2, <1>3, <1>4, <1>5, <1>6 DEF FilesNext

\* An envelope and its attachment are in the inbox together.
LEMMA FilesAreTogetherStep ==
    ASSUME FilesStep
    PROVE  FilesAreTogether'
  <1> USE InboxFilesAssumption DEF FilesStep, Storing
  <1>0. /\ FilesTypeOK /\ NewMessage /\ Room /\ TakingBack /\ FilesAreTogether
        /\ todo \subseteq Files /\ moved \subseteq Files /\ Inbox \subseteq Files
    BY DEF FilesInv, FilesTypeOK, Inbox
  <1> DEFINE Whole(m) == Envelope(m) \in Inbox /\ m \notin Read \cup gone \cup broken => FilesOf(m) \subseteq Inbox
             Found(m) == Attachment(m) \in Inbox /\ m \notin cut \cup broken \cup {message} => Envelope(m) \in Inbox
             Grown == Read \subseteq Read' /\ gone \subseteq gone' /\ broken \subseteq broken' /\ cut \subseteq cut'
  <1>a. \A m \in Messages : Whole(m) /\ Found(m)
    BY <1>0 DEF FilesAreTogether
  <1>b. (\A m \in Messages : Whole(m)' /\ Found(m)') => FilesAreTogether'
    BY DEF FilesAreTogether
  <1>c. ASSUME Grown, Inbox' = Inbox, message \in {message', NoMessage} PROVE FilesAreTogether'
    BY <1>0, <1>a, <1>b, <1>c
  <1>d. ASSUME NEW f \in Files, Grown, message' = message, Inbox' \in {Inbox \ {f}, Inbox \cup {f}}
        PROVE  \A m \in Messages \ {f[2]} : Whole(m)' /\ Found(m)'
    <2> SUFFICES ASSUME NEW m \in Messages \ {f[2]} PROVE Whole(m)' /\ Found(m)'
      OBVIOUS
    <2>1. f # Envelope(m) /\ f # Attachment(m) /\ f \notin FilesOf(m)
      BY FileNames
    <2>2. Whole(m) /\ Found(m)
      BY <1>a
    <2> QED BY <1>d, <2>1, <2>2
  <1>1. ASSUME NEW m \in Messages, (\E oldest : BeginWrite(m, oldest)) \/ ReadMessage(m) \/ DeleteMessage(m)
        PROVE  FilesAreTogether'
    <2>1. Inbox' = Inbox /\ message \in {message', NoMessage} /\ gone \subseteq gone' /\ broken' = broken /\ cut' = cut
      BY <1>0, <1>1 DEF BeginWrite, ReadMessage, DeleteMessage, BeginDelete, Inbox, NewMessage, past, job
    <2>2. Read \subseteq Read'
      <3>1. CASE ReadMessage(m)
        BY <1>0, <3>1, ReadEffect
      <3>2. CASE UNCHANGED readOrder
        BY <3>2 DEF Read
      <3> QED BY <1>1, <3>1, <3>2 DEF BeginWrite, DeleteMessage, BeginDelete
    <2> QED BY <1>c, <2>1, <2>2
  <1>2. ASSUME NEW s, Purge(s) PROVE FilesAreTogether'
    <2>1. Inbox' = Inbox /\ message' = message /\ gone \subseteq gone' /\ broken' = broken /\ cut' = cut /\ Read' = Read
      BY <1>2 DEF Purge, BeginDelete, Inbox, Read
    <2> QED BY <1>c, <2>1
  <1>3. ASSUME NEW f \in Files, Move(f) PROVE FilesAreTogether'
    <2>1. /\ phase = "moving" /\ f \in todo /\ IsFirst(f, todo) /\ Put(f, "kept") /\ message' = message
          /\ Read' = Read /\ gone' = gone /\ broken' = broken /\ cut' = cut /\ f[2] \in Read
      BY <1>0, <1>3 DEF Move, IsFirst, Read, past, Room
    <2>2. Inbox' = Inbox \ {f}
      BY <1>0, <2>1, PutEffect
    <2>3. f = Envelope(f[2]) => Attachment(f[2]) \notin Inbox
      BY <1>0, <2>1, FileNames, FirstAndLast DEF Room
    <2>4. Found(f[2])'
      BY <1>a, <2>1, <2>2, <2>3, FileNames
    <2>5. Whole(f[2])'
      BY <2>1
    <2> QED BY <1>b, <1>d, <2>1, <2>2, <2>4, <2>5
  <1>4. ASSUME NEW f \in Files, PutNew(f) PROVE FilesAreTogether'
    <2>1. /\ IsFirst(f, FilesOf(message) \ Inbox) /\ Put(f, "inbox") /\ message' = message /\ f[2] = message
          /\ Read' = Read /\ gone' = gone /\ broken' = broken /\ cut' = cut
      BY <1>4, FileNames DEF PutNew, IsFirst, Read, past
    <2>2. Inbox' = Inbox \cup {f}
      BY <1>0, <2>1, PutEffect
    <2>3. f \in FilesOf(message) \ Inbox /\ FilesOf(message) \ Inbox \subseteq Files
      BY <2>1, FileNames DEF IsFirst
    <2>4. f = Envelope(message) => Attachment(message) \notin FilesOf(message) \ Inbox
      BY <2>1, <2>3, FirstAndLast
    <2>5. \A g \in FilesOf(message) : g \in {Envelope(message), Attachment(message)}
      BY FileNames
    <2>6. Whole(message)'
      BY <1>a, <2>1, <2>2, <2>3, <2>4, <2>5, FileNames
    <2> QED BY <1>b, <1>d, <2>1, <2>2, <2>6
  <1>5. ASSUME NEW f \in Files, Undo(f) PROVE FilesAreTogether'
    <2>1. /\ phase = "undoing" /\ f \in todo /\ IsLast(f, todo) /\ message' = message
          /\ Read' = Read /\ gone' = gone /\ cut' = cut
      BY <1>5 DEF Undo, IsLast, Read
    <2>2. CASE UNCHANGED place /\ broken' = broken \cup {message, f[2]}
      <3>1. Inbox' = Inbox
        BY <2>2 DEF Inbox
      <3> QED BY <1>c, <2>1, <2>2, <3>1
    <2>3. CASE Put(f, IF f[2] = message THEN "none" ELSE "inbox") /\ UNCHANGED broken
      <3>1. Inbox' = IF f[2] = message THEN Inbox \ {f} ELSE Inbox \cup {f}
        BY <1>0, <2>3, PutEffect
      <3>2. f[2] \in Messages /\ f \in {Envelope(f[2]), Attachment(f[2])}
        BY FileNames
      <3>3. f = Attachment(f[2]) => Envelope(f[2]) \notin todo
        BY <1>0, <2>1, FirstAndLast
      <3>4. CASE f[2] = message
        <4>1. Envelope(message) \in FilesOf(message)
          BY <3>2, <3>4, FileNames DEF FilesOf
        <4>2. Envelope(message) \in Inbox' => message \in broken
          BY <1>0, <2>1, <3>1, <3>2, <3>3, <3>4, <4>1, FileNames DEF TakingBack, Inbox
        <4>3. Whole(message)' /\ Found(message)'
          BY <2>1, <2>3, <4>2
        <4> QED BY <1>b, <1>d, <2>1, <2>3, <3>1, <3>4, <4>3
      <3>5. CASE f[2] # message
        <4>1. f \in moved /\ f[2] \in Read
          BY <1>0, <2>1, <3>5, FileNames DEF TakingBack, Room
        <4>2. f = Attachment(f[2]) => Envelope(f[2]) \in Inbox \/ f[2] \in broken
          BY <1>0, <2>1, <3>2, <3>3, <4>1, FileNames DEF TakingBack, Room, Inbox
        <4>3. Whole(f[2])' /\ Found(f[2])'
          BY <2>1, <2>3, <3>1, <3>2, <3>5, <4>1, <4>2
        <4> QED BY <1>b, <1>d, <2>1, <2>3, <3>1, <3>5, <4>3
      <3> QED BY <3>4, <3>5
    <2> QED BY <1>5, <2>2, <2>3 DEF Undo
  <1>6. ASSUME NEW f \in Files, Unlink(f) PROVE FilesAreTogether'
    <2>1. /\ phase = "deleting" /\ f \in todo /\ IsFirst(f, todo \cap FilesOf(f[2])) /\ Put(f, "none") /\ message' = message
          /\ Read' = Read /\ gone' = gone /\ broken' = broken /\ cut' = cut /\ f[2] \in gone
      BY <1>0, <1>6 DEF Unlink, Read, past, Room
    <2>2. Inbox' = Inbox \ {f}
      BY <1>0, <2>1, PutEffect
    <2>3. f \in todo \cap FilesOf(f[2]) /\ todo \cap FilesOf(f[2]) \subseteq Files /\ f[2] \in Messages
      BY <1>0, <2>1, FileNames
    <2>4. f = Envelope(f[2]) => Attachment(f[2]) \notin todo \cap FilesOf(f[2])
      BY <2>1, <2>3, FirstAndLast
    <2>5. f = Envelope(f[2]) => Attachment(f[2]) \notin Inbox
      BY <1>0, <2>1, <2>3, <2>4, FileNames DEF Room, FilesOf
    <2>6. Found(f[2])'
      BY <1>a, <2>1, <2>2, <2>3, <2>5, FileNames
    <2>7. Whole(f[2])'
      BY <2>1
    <2> QED BY <1>b, <1>d, <2>1, <2>2, <2>6, <2>7
  <1>7. ASSUME NEW left \in SUBSET moved, CleanUp(left) PROVE FilesAreTogether'
    <2>1. /\ FilesOf(message) \subseteq Inbox /\ gone \subseteq gone' /\ Read' = Read /\ cut' = cut /\ broken' = broken
          /\ \A f \in moved : place[f] = "kept"
          /\ place' = [f \in Files |-> IF f \in moved \ left THEN "none" ELSE place[f]]
      BY <1>0, <1>7 DEF CleanUp, Read, Room
    <2>2. Inbox' = Inbox
      BY <2>1 DEF Inbox
    <2>3. ASSUME message \in Messages PROVE Envelope(message) \in Inbox
      BY <2>1, <2>3, FileNames DEF FilesOf
    <2>4. ASSUME NEW m \in Messages PROVE Whole(m)' /\ Found(m)'
      BY <1>a, <2>1, <2>2, <2>3, <2>4
    <2> QED BY <1>b, <2>4
  <1>8. CASE Fail \/ UNCHANGED filesVars
    <2>1. Inbox' = Inbox /\ message' = message /\ Read' = Read /\ gone' = gone /\ cut' = cut /\ broken' = broken
      BY <1>8 DEF Fail, filesVars, job, past, Inbox, Read
    <2> QED BY <1>c, <2>1
  <1>9. CASE Undone
    <2>1. /\ phase = "undoing" /\ todo = {} /\ Inbox' = Inbox
          /\ Read' = Read /\ gone' = gone /\ cut' = cut /\ broken' = broken
      BY <1>9 DEF Undone, past, Inbox, Read
    <2>2. ASSUME message \in Messages PROVE Attachment(message) \notin Inbox \/ message \in broken
      BY <1>0, <2>1, <2>2, FileNames DEF TakingBack, Inbox, FilesOf
    <2>3. ASSUME NEW m \in Messages PROVE Whole(m)' /\ Found(m)'
      BY <1>a, <2>1, <2>2, <2>3
    <2> QED BY <1>b, <2>3
  <1>10. CASE Deleted \/ DeleteFails \/ Crash
    <2>1. /\ Inbox' = Inbox /\ Read' = Read /\ gone' = gone /\ broken' = broken /\ cut \subseteq cut'
          /\ message = NoMessage \/ message \in cut'
      BY <1>0, <1>10 DEF Deleted, DeleteFails, Crash, Inbox, Read, NewMessage, past
    <2>2. ASSUME NEW m \in Messages PROVE Whole(m)' /\ Found(m)'
      BY <1>a, <2>1, <2>2
    <2> QED BY <1>b, <2>2
  <1> QED BY <1>1, <1>2, <1>3, <1>4, <1>5, <1>6, <1>7, <1>8, <1>9, <1>10 DEF FilesNext

\* The invariant is inductive.
LEMMA FilesInvStep ==
    ASSUME FilesTypeOK, FilesInv, [FilesNext]_filesVars
    PROVE  FilesInv'
  BY NewMessageStep, RoomStep, TakingBackStep, InboxAccountStep, NothingLostStep, FilesAreTogetherStep
     DEF FilesInv, FilesStep

\* The inductive invariant of write_message_envelope() and of the deletions.
THEOREM FilesInvariant == FilesSpec => [](FilesTypeOK /\ FilesInv)
  <1>1. FilesInit => FilesTypeOK /\ FilesInv
    <2> SUFFICES ASSUME FilesInit PROVE FilesTypeOK /\ FilesInv
      OBVIOUS
    <2>1. Inbox = {} /\ Read = {} /\ ToSet(<<>>) = {} /\ IsInjective(<<>>)
      BY DEF FilesInit, Inbox, Read, ToSet, IsInjective
    <2>2. FilesTypeOK
      BY <2>1 DEF FilesInit, FilesTypeOK
    <2>3. NewMessage /\ Room
      BY <2>1, InboxFilesAssumption, FileNames DEF FilesInit, NewMessage, Room, Storing
    <2>4. TakingBack /\ InboxAccount /\ NothingLost /\ FilesAreTogether
      BY <2>1 DEF FilesInit, TakingBack, InboxAccount, Storing, NothingLost, FilesAreTogether
    <2> QED BY <2>2, <2>3, <2>4 DEF FilesInv
  <1>2. FilesTypeOK /\ FilesInv /\ [FilesNext]_filesVars => (FilesTypeOK /\ FilesInv)'
    BY FilesTypes, FilesInvStep DEF FilesInv
  <1> QED BY <1>1, <1>2, PTL DEF FilesSpec

\* A message that was stored is on disk as a whole, in the inbox or in a transaction
\* directory, until it is deleted or retired, whatever fails and wherever the program is killed.
THEOREM StoredIsNotLost == FilesSpec => []NothingLost
  BY FilesInvariant, PTL DEF FilesInv

\* No step of storing, taking back or deleting, and no kill between two, leaves in the inbox an
\* unread envelope without its attachment, or an attachment that no envelope leads to.
THEOREM EnvelopeWithAttachment == FilesSpec => []FilesAreTogether
  BY FilesInvariant, PTL DEF FilesInv

\* write_message_envelope() adds all files of the message and removes what made room, or leaves
\* the inbox as it was, wherever it failed, unless a file could not be taken back.
THEOREM StoringIsAtomic == FilesSpec => AllOrNothing
  <1> DEFINE Step == (phase \in {"committed", "undoing"} /\ phase' = "idle" /\ UNCHANGED cut /\ message \notin broken) =>
          \/ Inbox' = before
          \/ Inbox' = (before \ moved) \cup FilesOf(message)
  <1>1. FilesTypeOK /\ FilesInv /\ [FilesNext]_filesVars => [Step]_filesVars
    <2> SUFFICES ASSUME FilesTypeOK, FilesInv, FilesNext, UNCHANGED cut, message \notin broken, phase' = "idle",
                        phase \in {"committed", "undoing"}
                 PROVE  Inbox' = before \/ Inbox' = (before \ moved) \cup FilesOf(message)
      OBVIOUS
    <2>0. /\ NewMessage /\ Room /\ TakingBack /\ InboxAccount /\ Storing /\ Inbox \subseteq Files
          /\ FilesOf(message) \subseteq Files
      BY FileNames DEF FilesInv, Storing, Inbox
    <2>1. ASSUME NEW left \in SUBSET moved, CleanUp(left) PROVE Inbox' = (before \ moved) \cup FilesOf(message)
      <3>1. Inbox' = Inbox
        BY <2>0, <2>1 DEF CleanUp, Room, Inbox
      <3>2. FilesOf(message) \subseteq Inbox /\ Inbox \ FilesOf(message) = before \ moved
        BY <2>0, <2>1 DEF CleanUp, Room, InboxAccount, Storing
      <3> QED BY <3>1, <3>2
    <2>2. CASE Undone
      <3>1. Inbox' = Inbox
        BY <2>2 DEF Undone, Inbox
      <3>2. Inbox \cap FilesOf(message) = {}
        BY <2>0, <2>2 DEF Undone, TakingBack, Inbox
      <3>3. Inbox \ FilesOf(message) = before
        BY <2>0, <2>2 DEF Undone, InboxAccount, Storing
      <3> QED BY <3>1, <3>2, <3>3
    <2>3. ~Crash
      <3>1. message # NoMessage /\ message \notin cut
        BY <2>0 DEF NewMessage
      <3> QED BY <3>1 DEF Crash
    <2>4. ASSUME NEW m, (\E oldest : BeginWrite(m, oldest)) \/ ReadMessage(m) \/ DeleteMessage(m) \/ Purge(m) PROVE FALSE
      BY <2>4 DEF BeginWrite, ReadMessage, DeleteMessage, Purge, BeginDelete
    <2>5. ASSUME NEW f \in Files, Move(f) \/ PutNew(f) \/ Undo(f) \/ Unlink(f) PROVE FALSE
      BY <2>5 DEF Move, PutNew, Undo, Unlink
    <2>6. ~Fail /\ ~Deleted /\ ~DeleteFails
      BY DEF Fail, Deleted, DeleteFails
    <2> QED BY <2>1, <2>2, <2>3, <2>4, <2>5, <2>6 DEF FilesNext
  <1> QED BY <1>1, FilesInvariant, PTL DEF FilesSpec, AllOrNothing

=============================================================================
