-------------------------- MODULE ClientPoolProofs --------------------------
(***************************************************************************)
(* Proofs about ClientPool, for any callers, connections and bounds.       *)
(*                                                                         *)
(* The inductive invariant is PoolInv.  A step of a caller changes only    *)
(* the connection that the caller holds, and by Exclusive nobody else      *)
(* holds it: HolderStep proves once what such a step leaves as it was.     *)
(***************************************************************************)
EXTENDS ClientPool, FiniteSetTheorems, SequenceTheorems, TLAPS

-----------------------------------------------------------------------------
(* The inductive invariant                                                 *)

\* The commands that callers have still to send, one element for each.
Outstanding == {w \in Caller \X (1..MaxBatch) :
                  job[w[1]] # Idle /\ w[2] <= job[w[1]].left}

\* Commands that are written or still to be sent were planned.
Accounted == /\ IsFiniteSet(Outstanding)
             /\ sent + Cardinality(Outstanding) <= planned

\* A caller sends only while it has commands left, and reads only while it is
\* owed a reply, but for the subscriber, which never ends and, like the ones
\* that forget, is owed none.
JobOK(k) ==
    /\ job[k].at = "send" => job[k].left >= 1
    /\ job[k].at = "read" /\ job[k].mode # "subscribe" =>
          job[k].owed # <<>> /\ job[k].mode \notin {"forget", "drop"}
    /\ job[k].at = "put" => job[k].mode # "subscribe"
    /\ job[k].mode \in Unanswered => job[k].owed = <<>>

\* The unread replies s are the first ones of those that are owed.
FirstOf(s, owed) == Len(s) <= Len(owed) /\ \A i \in 1..Len(s) : s[i] = owed[i]

\* On a session without a stray reply, or the rest of one, what a caller can
\* read is what it is owed: all of it, or what the server sent before it hung
\* up.  A subscriber that has a netClient to read from has sent its command.
ReadsOwn(k) ==
    LET j == job[k]  o == job[k].conn
    IN  /\ j.at = "send" /\ net[o] = "nil" => j.owed = <<>>
        /\ j.at = "put" /\ net[o] # "nil" => j.owed = <<>>
        /\ /\ net[o] # "nil" /\ session[o] \notin dirty
           /\ j.mode # "subscribe" \/ j.at = "send"
           => FirstOf(inbox[o], j.owed) /\ (net[o] = "up" => inbox[o] = j.owed)
        /\ j.mode = "subscribe" /\ j.at = "read" /\ net[o] # "nil" => sent >= 1

CallerInv == \A k \in Busy : JobOK(k) /\ ReadsOwn(k)

\* A connection without netClient has nothing to read; one with a netClient
\* was dialled; one in the pool has nothing to read unless a stray reply came.
ConnInv ==
    /\ \A o \in Conn : IF net[o] = "nil" THEN inbox[o] = <<>>
                                        ELSE session[o] >= 1
    /\ \A o \in ToSet(pool) :
         net[o] # "nil" /\ session[o] \notin dirty => inbox[o] = <<>>

\* The open sockets are those of the pool, of the callers and the leaked ones.
OpenInv ==
    /\ Len(pool) <= MaxIdle
    /\ IsFiniteSet(Busy) /\ IsFiniteSet(leaked)
    /\ \A o \in Conn : net[o] # "nil" => o \in ToSet(pool) \cup Held \cup leaked

PoolInv == /\ TypeOK /\ Exclusive /\ Accounted /\ CallerInv /\ ConnInv
           /\ OpenInv /\ OwnReplies /\ DoHasNetClient

-----------------------------------------------------------------------------

BusyJob == [at : {"send", "read", "put"}, mode : Mode, conn : Conn,
            left : 0..MaxBatch, owed : Seq(1..MaxCmds)]

\* What TypeOK says of the callers that are busy.
LEMMA BusyJobs ==
    ASSUME TypeOK, NEW k \in Caller
    PROVE  /\ k \in Busy <=> job[k] # Idle
           /\ k \in Busy <=> job[k].at # "idle"
           /\ k \in Busy <=> job[k] \in BusyJob
  <1>1. job[k] \in {Idle} \cup BusyJob
    BY DEF TypeOK, Job, BusyJob
  <1>2. Idle.at = "idle"
    BY DEF Idle
  <1>3. job[k] \in BusyJob => job[k].at # "idle"
    BY DEF BusyJob
  <1> QED
    BY <1>1, <1>2, <1>3 DEF Busy

\* Fields of a busy caller's job.
LEMMA JobFields ==
    ASSUME NEW j \in BusyJob
    PROVE  /\ j.at \in {"send", "read", "put"} /\ j.mode \in Mode
           /\ j.conn \in Conn /\ j.left \in 0..MaxBatch
           /\ j.owed \in Seq(1..MaxCmds)
  BY DEF BusyJob

\* What Written returns.
LEMMA WrittenIs ==
    ASSUME NEW j \in BusyJob, j.left >= 1, sent \in 0..(MaxCmds - 1)
    PROVE  LET w == Written(j)
               owed == IF j.mode \in Unanswered THEN <<>>
                       ELSE Append(j.owed, sent + 1)
           IN  /\ w \in BusyJob
               /\ w.mode = j.mode /\ w.conn = j.conn /\ w.left = j.left - 1
               /\ w.owed = owed
               /\ w.at = IF j.mode \in {"single", "subscribe"} THEN "read"
                         ELSE IF j.left - 1 > 0 THEN "send"
                         ELSE IF owed # <<>> THEN "read" ELSE "put"
  <1> DEFINE owed == IF j.mode \in Unanswered THEN <<>>
                     ELSE Append(j.owed, sent + 1)
  <1>1. owed \in Seq(1..MaxCmds)
    <2>1. sent + 1 \in 1..MaxCmds
      BY PoolAssumption
    <2> QED
      BY <2>1, JobFields, AppendProperties, EmptySeq
  <1>2. j.left - 1 \in 0..MaxBatch
    BY JobFields, PoolAssumption
  <1> HIDE DEF owed
  <1> DEFINE at == IF j.mode \in {"single", "subscribe"} THEN "read"
                   ELSE IF j.left - 1 > 0 THEN "send"
                   ELSE IF owed # <<>> THEN "read" ELSE "put"
  <1>3. Written(j) = [j EXCEPT !.left = j.left - 1, !.owed = owed, !.at = at]
    BY DEF Written, owed, at
  <1>4. at \in {"send", "read", "put"}
    OBVIOUS
  <1> HIDE DEF at
  <1>5. Written(j) = [at |-> at, mode |-> j.mode, conn |-> j.conn,
                      left |-> j.left - 1, owed |-> owed]
    BY <1>3 DEF BusyJob
  <1> QED
    BY <1>1, <1>2, <1>4, <1>5, JobFields DEF BusyJob, owed, at

\* What WasRead returns.
LEMMA WasReadIs ==
    ASSUME NEW j \in BusyJob, j.mode = "subscribe" \/ j.owed # <<>>
    PROVE  LET w == WasRead(j)
           IN  /\ w \in BusyJob
               /\ w.mode = j.mode /\ w.conn = j.conn /\ w.left = j.left
               /\ j.mode = "subscribe" => w = j
               /\ j.mode # "subscribe" =>
                    /\ w.owed = Tail(j.owed)
                    /\ w.at = IF Tail(j.owed) # <<>> THEN "read"
                              ELSE IF j.left > 0 THEN "send" ELSE "put"
  <1>1. CASE j.mode = "subscribe"
    BY <1>1 DEF WasRead
  <1>2. CASE j.mode # "subscribe"
    <2> DEFINE owed == Tail(j.owed)
               at == IF owed # <<>> THEN "read"
                     ELSE IF j.left > 0 THEN "send" ELSE "put"
    <2>1. owed \in Seq(1..MaxCmds)
      BY <1>2, JobFields, HeadTailProperties
    <2>2. at \in {"send", "read", "put"}
      OBVIOUS
    <2>3. WasRead(j) = [j EXCEPT !.owed = owed, !.at = at]
      BY <1>2 DEF WasRead
    <2> HIDE DEF owed, at
    <2>4. WasRead(j) = [at |-> at, mode |-> j.mode, conn |-> j.conn,
                        left |-> j.left, owed |-> owed]
      BY <2>3 DEF BusyJob
    <2> QED
      BY <1>2, <2>1, <2>2, <2>4, JobFields DEF BusyJob, owed, at
  <1> QED
    BY <1>1, <1>2

-----------------------------------------------------------------------------
(* What a step of the holder of a connection leaves as it was              *)

\* The connections that are held stay so, each by its caller.
LEMMA SameHolders ==
    ASSUME TypeOK, TypeOK', NEW k \in Busy, NEW j \in BusyJob,
           j.conn = job[k].conn, job' = [job EXCEPT ![k] = j]
    PROVE  /\ Busy' = Busy /\ Held' = Held
           /\ \A l \in Busy : job'[l].conn = job[l].conn
           /\ \A l \in Busy \ {k} : job'[l] = job[l]
           /\ job'[k] = j /\ k \in Caller
  <1>1. k \in Caller /\ Busy \subseteq Caller /\ job'[k] = j
    BY DEF Busy, TypeOK
  <1>2. \A l \in Caller \ {k} : job'[l] = job[l]
    BY DEF TypeOK
  <1>3. \A l \in Caller : l \in Busy' <=> l \in Busy
    <2> SUFFICES ASSUME NEW l \in Caller PROVE l \in Busy' <=> l \in Busy
      OBVIOUS
    <2>1. l \in Busy <=> job[l] # Idle
      BY DEF Busy
    <2>2. l \in Busy' <=> job'[l] # Idle
      BY DEF Busy, Idle
    <2>3. j # Idle
      BY DEF BusyJob, Idle
    <2> QED
      BY <1>1, <1>2, <2>1, <2>2, <2>3
  <1>4. Busy' = Busy
    BY <1>3 DEF Busy
  <1>5. \A l \in Busy : job'[l].conn = job[l].conn
    BY <1>1, <1>2
  <1>6. Held' = Held
    BY <1>4, <1>5 DEF Held
  <1> QED
    BY <1>1, <1>2, <1>4, <1>5, <1>6

\* A step in which caller k changes its job and the connection it holds, and
\* dirty and sent grow if anything: the parts of PoolInv hold after it if they
\* hold of k and of its connection.
LEMMA HolderStep ==
    ASSUME PoolInv, TypeOK', NEW k \in Busy, NEW j \in BusyJob,
           j.conn = job[k].conn, job' = [job EXCEPT ![k] = j],
           pool' = pool, leaked' = leaked, dirty \subseteq dirty',
           sent <= sent',
           \A p \in Conn \ {j.conn} : /\ net'[p] = net[p]
                                      /\ session'[p] = session[p]
                                      /\ inbox'[p] = inbox[p],
           JobOK(k)', ReadsOwn(k)',
           IF net'[j.conn] = "nil" THEN inbox'[j.conn] = <<>>
                                   ELSE session'[j.conn] >= 1,
           j.at = "read" /\ net'[j.conn] = "nil"
             => j.mode \in {"pipelined", "subscribe"}
    PROVE  /\ Exclusive' /\ CallerInv' /\ ConnInv' /\ OpenInv'
           /\ DoHasNetClient'
  <1> USE DEF PoolInv
  <1>1. /\ Busy' = Busy /\ Held' = Held
        /\ \A l \in Busy : job'[l].conn = job[l].conn
        /\ \A l \in Busy \ {k} : job'[l] = job[l]
        /\ job'[k] = j /\ k \in Caller
    BY SameHolders
  <1>2. \A l \in Busy : job[l] \in BusyJob /\ l \in Caller
    BY BusyJobs DEF Busy
  <1>3. Exclusive'
    BY <1>1 DEF Exclusive
  <1>4. \A l \in Busy \ {k} : /\ job[l].conn \in Conn \ {j.conn}
                               /\ net'[job[l].conn] = net[job[l].conn]
                               /\ session'[job[l].conn] = session[job[l].conn]
                               /\ inbox'[job[l].conn] = inbox[job[l].conn]
    <2> SUFFICES ASSUME NEW l \in Busy \ {k}
                 PROVE  job[l].conn \in Conn \ {j.conn}
      OBVIOUS
    <2>1. job[l].conn \in Conn
      BY <1>2, JobFields
    <2>2. job[l].conn # job[k].conn
      BY DEF Exclusive
    <2> QED
      BY <2>1, <2>2
  <1>5. CallerInv'
    <2> SUFFICES ASSUME NEW l \in Busy PROVE JobOK(l)' /\ ReadsOwn(l)'
      BY <1>1 DEF CallerInv
    <2>1. CASE l = k
      BY <2>1
    <2>2. CASE l # k
      <3>1. JobOK(l) /\ ReadsOwn(l)
        BY DEF CallerInv
      <3>2. job'[l] = job[l]
        BY <1>1, <2>2
      <3>3. JobOK(l)'
        BY <3>1, <3>2 DEF JobOK
      <3>4. ReadsOwn(l)'
        <4>1. sent \in Nat /\ sent' \in Nat
          BY PoolAssumption DEF TypeOK
        <4> QED
          BY <1>4, <2>2, <3>1, <3>2, <4>1 DEF ReadsOwn
      <3> QED
        BY <3>3, <3>4
    <2> QED
      BY <2>1, <2>2
  <1>6. j.conn \in Conn /\ j.conn \in Held
    BY <1>2, JobFields DEF Held
  <1>7. j.conn \notin ToSet(pool)
    BY <1>6 DEF Exclusive
  <1>8. ToSet(pool) \subseteq Conn
    BY LenProperties DEF ToSet, TypeOK
  <1>9. ConnInv'
    <2>1. ASSUME NEW o \in Conn
          PROVE  IF net'[o] = "nil" THEN inbox'[o] = <<>> ELSE session'[o] >= 1
      <3>1. CASE o = j.conn
        BY <3>1
      <3>2. CASE o # j.conn
        BY <3>2 DEF ConnInv
      <3> QED
        BY <3>1, <3>2
    <2>2. ASSUME NEW o \in ToSet(pool), net'[o] # "nil", session'[o] \notin dirty'
          PROVE  inbox'[o] = <<>>
      <3>1. o \in Conn \ {j.conn}
        BY <1>7, <1>8
      <3> QED
        BY <2>2, <3>1 DEF ConnInv
    <2> QED
      BY <2>1, <2>2 DEF ConnInv
  <1>10. OpenInv'
    <2>1. ASSUME NEW o \in Conn, net'[o] # "nil"
          PROVE  o \in ToSet(pool) \cup Held \cup leaked
      <3>1. CASE o = j.conn
        BY <1>6, <3>1
      <3>2. CASE o # j.conn
        BY <2>1, <3>2 DEF OpenInv
      <3> QED
        BY <3>1, <3>2
    <2> QED
      BY <1>1, <2>1 DEF OpenInv
  <1>11. DoHasNetClient'
    <2> SUFFICES ASSUME NEW l \in Busy, job'[l].at = "read",
                        net'[job'[l].conn] = "nil"
                 PROVE  job'[l].mode \in {"pipelined", "subscribe"}
      BY <1>1 DEF DoHasNetClient
    <2>1. CASE l = k
      BY <1>1, <2>1
    <2>2. CASE l # k
      BY <1>1, <1>4, <2>2 DEF DoHasNetClient
    <2> QED
      BY <2>1, <2>2
  <1> QED
    BY <1>3, <1>5, <1>9, <1>10, <1>11

-----------------------------------------------------------------------------
(* The commands still to be sent                                           *)

\* If no more are outstanding and none was sent, the account stays right.
LEMMA FewerOutstanding ==
    ASSUME TypeOK, Accounted, Outstanding' \subseteq Outstanding,
           UNCHANGED <<sent, planned>>
    PROVE  Accounted'
  <1>1. /\ IsFiniteSet(Outstanding')
        /\ Cardinality(Outstanding') <= Cardinality(Outstanding)
    BY FS_Subset DEF Accounted
  <1>2. /\ Cardinality(Outstanding') \in Nat /\ Cardinality(Outstanding) \in Nat
        /\ sent \in Nat /\ planned \in Nat
    BY <1>1, FS_CardinalityType, PoolAssumption DEF Accounted, TypeOK
  <1> QED
    BY <1>1, <1>2 DEF Accounted

\* A caller that leaves its count of commands as it was.
LEMMA SameOutstanding ==
    ASSUME TypeOK, TypeOK', NEW k \in Busy, NEW j \in BusyJob,
           j.conn = job[k].conn, j.left = job[k].left,
           job' = [job EXCEPT ![k] = j]
    PROVE  Outstanding' = Outstanding
  <1>1. Busy' = Busy /\ \A l \in Busy \ {k} : job'[l] = job[l]
    BY SameHolders
  <1>2. k \in Caller /\ job'[k] = j
    BY SameHolders
  <1>3. \A l \in Caller : /\ job'[l] # Idle <=> job[l] # Idle
                          /\ job[l] # Idle => job'[l].left = job[l].left
    BY <1>1, <1>2 DEF Busy
  <1> QED
    BY <1>3 DEF Outstanding

-----------------------------------------------------------------------------
(* Steps of the holder of a connection                                     *)

\* The holder's connection is a connection.
LEMMA HolderIs ==
    ASSUME TypeOK, NEW k \in Caller, job[k].at \in {"send", "read", "put"}
    PROVE  k \in Busy /\ job[k] \in BusyJob /\ job[k].conn \in Conn
  <1>1. k \in Busy
    BY BusyJobs
  <1> QED
    BY <1>1, BusyJobs, JobFields

\* A job that replaces the one of caller k has its type.
LEMMA JobType ==
    ASSUME TypeOK, NEW k \in Caller, NEW j \in BusyJob,
           job' = [job EXCEPT ![k] = j]
    PROVE  job' \in [Caller -> Job]
  BY DEF TypeOK, BusyJob, Job

\* What Fails does to the job.
LEMMA FailsIs ==
    ASSUME TypeOK, NEW k \in Caller, job[k] \in BusyJob, Fails(k)
    PROVE  LET j == [at |-> IF job[k].mode = "subscribe" THEN "read" ELSE "put",
                     mode |-> job[k].mode, conn |-> job[k].conn,
                     left |-> job[k].left, owed |-> job[k].owed]
           IN  j \in BusyJob /\ job' = [job EXCEPT ![k] = j]
  <1> DEFINE at == IF job[k].mode = "subscribe" THEN "read" ELSE "put"
  <1>1. at \in {"send", "read", "put"}
    OBVIOUS
  <1> HIDE DEF at
  <1>2. job' = [job EXCEPT ![k] = [job[k] EXCEPT !.at = at]]
    BY DEF Fails, TypeOK, at
  <1>3. [job[k] EXCEPT !.at = at]
          = [at |-> at, mode |-> job[k].mode, conn |-> job[k].conn,
             left |-> job[k].left, owed |-> job[k].owed]
    BY DEF BusyJob
  <1> QED
    BY <1>1, <1>2, <1>3, JobFields DEF BusyJob, at

\* A call of caller k fails, and its connection is left without a netClient.
LEMMA FailsStep ==
    ASSUME PoolInv, NEW k \in Caller, job[k].at \in {"send", "read"}, Fails(k),
           net' \in [Conn -> {"nil", "up", "down"}],
           inbox' \in [Conn -> Seq(1..MaxCmds)],
           net'[job[k].conn] = "nil", inbox'[job[k].conn] = <<>>,
           \A p \in Conn \ {job[k].conn} : net'[p] = net[p] /\ inbox'[p] = inbox[p],
           UNCHANGED <<session, dials, pool, leaked, planned, sent, panicked,
                       dirty, wrong>>
    PROVE  PoolInv'
  <1> USE DEF PoolInv
  <1> DEFINE o == job[k].conn
             j == [at |-> IF job[k].mode = "subscribe" THEN "read" ELSE "put",
                   mode |-> job[k].mode, conn |-> job[k].conn,
                   left |-> job[k].left, owed |-> job[k].owed]
  <1>1. k \in Busy /\ job[k] \in BusyJob /\ o \in Conn
    BY HolderIs
  <1>2. j \in BusyJob /\ job' = [job EXCEPT ![k] = j] /\ j.conn = o
    BY <1>1, FailsIs
  <1>3. TypeOK'
    BY <1>2, JobType DEF TypeOK
  <1>4. job'[k] = j
    BY <1>2 DEF TypeOK
  <1>5. JobOK(k)' /\ ReadsOwn(k)'
    <2>1. JobOK(k)
      BY <1>1 DEF CallerInv
    <2> QED
      BY <1>4, <2>1 DEF JobOK, ReadsOwn
  <1>6. sent <= sent'
    BY PoolAssumption DEF TypeOK
  <1>7. j.at = "read" => j.mode \in {"pipelined", "subscribe"}
    OBVIOUS
  <1>8. j.left = job[k].left
    OBVIOUS
  <1> HIDE DEF j
  <1>9. /\ Exclusive' /\ CallerInv' /\ ConnInv' /\ OpenInv' /\ DoHasNetClient'
    BY <1>1, <1>2, <1>3, <1>5, <1>6, <1>7, HolderStep
  <1>10. Accounted'
    BY <1>1, <1>2, <1>3, <1>8, SameOutstanding, FewerOutstanding
  <1> QED
    BY <1>3, <1>9, <1>10 DEF OwnReplies

\* connect dials or fails.
LEMMA ConnectStep ==
    ASSUME PoolInv, NEW k \in Caller, Connect(k)
    PROVE  PoolInv'
  <1> USE DEF PoolInv
  <1> DEFINE o == job[k].conn
  <1>1. job[k].at = "send" /\ net[o] = "nil"
    BY DEF Connect
  <1>2. k \in Busy /\ job[k] \in BusyJob /\ o \in Conn
    BY <1>1, HolderIs
  <1>3. JobOK(k) /\ ReadsOwn(k) /\ inbox[o] = <<>>
    BY <1>1, <1>2 DEF CallerInv, ConnInv
  <1>4. UNCHANGED <<pool, leaked, planned, sent, panicked, dirty, wrong>>
    BY DEF Connect, histVars
  <1>5. CASE /\ net' = [net EXCEPT ![o] = "up"]
             /\ session' = [session EXCEPT ![o] = dials + 1]
             /\ dials' = dials + 1
             /\ UNCHANGED <<job, inbox>>
    <2>1. TypeOK'
      <3>1. dials + 1 \in Nat /\ dials + 1 \in 0..(dials + 1)
        BY DEF TypeOK
      <3>2. session' \in [Conn -> 0..(dials + 1)]
        BY <1>2, <1>5, <3>1 DEF TypeOK
      <3>3. dirty \subseteq 1..(dials + 1) /\ wrong \subseteq 1..(dials + 1)
        BY DEF TypeOK
      <3>4. net' \in [Conn -> {"nil", "up", "down"}]
        BY <1>5 DEF TypeOK
      <3> QED
        BY <1>4, <1>5, <3>1, <3>2, <3>3, <3>4 DEF TypeOK
    <2>2. job' = [job EXCEPT ![k] = job[k]]
      BY <1>5 DEF TypeOK
    <2>3. net'[o] = "up" /\ session'[o] = dials + 1 /\ inbox'[o] = <<>>
      BY <1>2, <1>3, <1>5 DEF TypeOK
    <2>4. \A p \in Conn \ {o} : /\ net'[p] = net[p] /\ session'[p] = session[p]
                                /\ inbox'[p] = inbox[p]
      BY <1>2, <1>5 DEF TypeOK
    <2>5. JobOK(k)'
      BY <1>3, <1>5 DEF JobOK
    <2>6. ReadsOwn(k)'
      <3>1. job'[k] = job[k] /\ job[k].at = "send" /\ job[k].owed = <<>>
        BY <1>1, <1>3, <1>5 DEF ReadsOwn
      <3>2. FirstOf(<<>>, <<>>)
        BY DEF FirstOf
      <3> QED
        BY <2>3, <3>1, <3>2 DEF ReadsOwn
    <2>7. sent <= sent' /\ session'[o] >= 1
      BY <1>4, <2>3, PoolAssumption DEF TypeOK
    <2>8. /\ Exclusive' /\ CallerInv' /\ ConnInv' /\ OpenInv' /\ DoHasNetClient'
      BY <1>1, <1>2, <1>4, <2>1, <2>2, <2>3, <2>4, <2>5, <2>6, <2>7, HolderStep
    <2>9. Accounted'
      BY <1>2, <1>4, <2>1, <2>2, SameOutstanding, FewerOutstanding
    <2> QED
      BY <1>4, <2>1, <2>8, <2>9 DEF OwnReplies
  <1>6. CASE Fails(k) /\ UNCHANGED <<netVars, dials>>
    <2>1. UNCHANGED <<net, session, inbox, dials>>
      BY <1>6 DEF netVars
    <2> QED
      BY <1>1, <1>3, <1>4, <1>6, <2>1, FailsStep DEF TypeOK
  <1> QED
    BY <1>5, <1>6 DEF Connect

\* What finalize does to one connection.
LEMMA FinalizeIs ==
    ASSUME TypeOK, NEW o \in Conn, Finalize({o})
    PROVE  /\ net' \in [Conn -> {"nil", "up", "down"}]
           /\ inbox' \in [Conn -> Seq(1..MaxCmds)]
           /\ net'[o] = "nil" /\ inbox'[o] = <<>> /\ UNCHANGED session
           /\ \A p \in Conn \ {o} : net'[p] = net[p] /\ inbox'[p] = inbox[p]
  <1>1. <<>> \in Seq(1..MaxCmds)
    BY EmptySeq
  <1> QED
    BY <1>1 DEF Finalize, TypeOK

\* WriteCommand or Flush fails.
LEMMA WriteFailsStep ==
    ASSUME PoolInv, NEW k \in Caller, WriteFails(k)
    PROVE  PoolInv'
  <1>1. TypeOK /\ job[k].at = "send"
    BY DEF PoolInv, WriteFails
  <1>2. job[k].conn \in Conn
    BY <1>1, HolderIs
  <1>3. UNCHANGED <<pool, leaked, planned, sent, dials, panicked, dirty, wrong>>
    BY DEF WriteFails, histVars
  <1>4. Finalize({job[k].conn}) /\ Fails(k)
    BY DEF WriteFails
  <1> QED
    BY <1>1, <1>2, <1>3, <1>4, FinalizeIs, FailsStep

\* One reply more on both sides.
LEMMA FirstOfAppend ==
    ASSUME NEW S, NEW s \in Seq(S), NEW t \in Seq(S), NEW x \in S,
           FirstOf(s, t)
    PROVE  FirstOf(s, Append(t, x))
  BY AppendProperties, LenProperties DEF FirstOf

\* One reply less on both sides.
LEMMA FirstOfTail ==
    ASSUME NEW S, NEW s \in Seq(S), NEW t \in Seq(S), s # <<>>, FirstOf(s, t)
    PROVE  t # <<>> /\ Head(s) = Head(t) /\ FirstOf(Tail(s), Tail(t))
  <1>1. Len(s) \in Nat \ {0} /\ Len(t) \in Nat
    BY EmptySeq, LenProperties
  <1>2. t # <<>>
    BY <1>1, EmptySeq DEF FirstOf
  <1>3. Head(s) = s[1] /\ Head(t) = t[1]
    BY <1>2
  <1>4. Head(s) = Head(t)
    BY <1>1, <1>3 DEF FirstOf
  <1>5. /\ Len(Tail(s)) = Len(s) - 1 /\ Len(Tail(t)) = Len(t) - 1
        /\ \A i \in 1..Len(Tail(s)) : Tail(s)[i] = s[i + 1]
        /\ \A i \in 1..Len(Tail(t)) : Tail(t)[i] = t[i + 1]
    BY <1>2, HeadTailProperties
  <1>6. FirstOf(Tail(s), Tail(t))
    BY <1>1, <1>5 DEF FirstOf
  <1> QED
    BY <1>2, <1>4, <1>6

\* Every sequence is a first part of itself.
LEMMA FirstOfSelf ==
    ASSUME NEW S, NEW s \in Seq(S)
    PROVE  FirstOf(s, s) /\ FirstOf(<<>>, s)
  BY LenProperties DEF FirstOf

\* The command that k sends next is outstanding, and was planned.
LEMMA NextIsPlanned ==
    ASSUME TypeOK, Accounted, NEW k \in Busy, JobOK(k), job[k].at = "send"
    PROVE  /\ <<k, job[k].left>> \in Outstanding
           /\ job[k].left \in 1..MaxBatch
           /\ sent + 1 \in 1..planned /\ sent + 1 \in 1..MaxCmds
  <1>1. k \in Caller /\ job[k] # Idle
    BY DEF Busy
  <1>2. job[k].left \in 1..MaxBatch
    BY <1>1, BusyJobs, JobFields, PoolAssumption DEF JobOK
  <1>3. <<k, job[k].left>> \in Outstanding
    BY <1>1, <1>2 DEF Outstanding
  <1>4. Cardinality(Outstanding) \in Nat /\ Cardinality(Outstanding) # 0
    BY <1>3, FS_EmptySet, FS_CardinalityType DEF Accounted
  <1>5. sent \in 0..planned /\ planned \in 0..MaxCmds
    BY DEF TypeOK
  <1> QED
    BY <1>2, <1>3, <1>4, <1>5, PoolAssumption DEF Accounted

\* Sending it takes it out of the account.
LEMMA SentIsAccounted ==
    ASSUME TypeOK, TypeOK', Accounted, NEW k \in Busy, NEW j \in BusyJob,
           j.conn = job[k].conn, job' = [job EXCEPT ![k] = j],
           job[k].left \in 1..MaxBatch, j.left = job[k].left - 1,
           <<k, job[k].left>> \in Outstanding,
           sent' = sent + 1, planned' = planned
    PROVE  Accounted'
  <1> DEFINE w == <<k, job[k].left>>
  <1>1. /\ Busy' = Busy /\ \A l \in Busy \ {k} : job'[l] = job[l]
        /\ k \in Caller /\ job'[k] = j
    BY SameHolders
  <1>2. \A l \in Caller : job'[l] # Idle <=> job[l] # Idle
    BY <1>1 DEF Busy
  <1>3. \A v \in Caller \X (1..MaxBatch) :
          v \in Outstanding' <=> v \in Outstanding /\ v # w
    <2> SUFFICES ASSUME NEW l \in Caller, NEW i \in 1..MaxBatch
                 PROVE  <<l, i>> \in Outstanding'
                          <=> <<l, i>> \in Outstanding /\ <<l, i>> # w
      OBVIOUS
    <2>1. <<l, i>> \in Outstanding <=> job[l] # Idle /\ i <= job[l].left
      BY DEF Outstanding
    <2>2. <<l, i>> \in Outstanding' <=> job'[l] # Idle /\ i <= job'[l].left
      BY DEF Outstanding, Idle
    <2>3. CASE l = k
      BY <1>1, <1>2, <2>1, <2>2, <2>3, PoolAssumption
    <2>4. CASE l # k
      <3>1. job[l] # Idle => job'[l] = job[l]
        BY <1>1, <2>4 DEF Busy
      <3> QED
        BY <1>2, <2>1, <2>2, <2>4, <3>1
    <2> QED
      BY <2>3, <2>4
  <1>4. Outstanding' = Outstanding \ {w}
    BY <1>3 DEF Outstanding
  <1>5. /\ IsFiniteSet(Outstanding \ {w})
        /\ Cardinality(Outstanding \ {w}) = Cardinality(Outstanding) - 1
    BY FS_RemoveElement DEF Accounted
  <1>6. /\ Cardinality(Outstanding) \in Nat /\ sent \in Nat /\ planned \in Nat
    BY FS_CardinalityType, PoolAssumption DEF Accounted, TypeOK
  <1> QED
    BY <1>4, <1>5, <1>6 DEF Accounted

\* WriteCommand and Flush succeed.
LEMMA WriteStep ==
    ASSUME PoolInv, NEW k \in Caller, Write(k)
    PROVE  PoolInv'
  <1> USE DEF PoolInv
  <1> DEFINE o == job[k].conn
             j == Written(job[k])
             mode == job[k].mode
             owed == IF mode \in Unanswered THEN <<>>
                     ELSE Append(job[k].owed, sent + 1)
  <1>1. job[k].at = "send" /\ net[o] # "nil"
    BY DEF Write
  <1>2. k \in Busy /\ job[k] \in BusyJob /\ o \in Conn
    BY <1>1, HolderIs
  <1>3. JobOK(k) /\ ReadsOwn(k) /\ session[o] >= 1
    BY <1>1, <1>2 DEF CallerInv, ConnInv
  <1>4. /\ <<k, job[k].left>> \in Outstanding /\ job[k].left \in 1..MaxBatch
        /\ sent + 1 \in 1..planned /\ sent + 1 \in 1..MaxCmds
    BY <1>1, <1>2, <1>3, NextIsPlanned
  <1>5. /\ j \in BusyJob
        /\ j.mode = mode /\ j.conn = o /\ j.left = job[k].left - 1
        /\ j.owed = owed
        /\ j.at = IF mode \in {"single", "subscribe"} THEN "read"
                  ELSE IF job[k].left - 1 > 0 THEN "send"
                  ELSE IF owed # <<>> THEN "read" ELSE "put"
    <2>1. sent \in 0..(MaxCmds - 1) /\ job[k].left >= 1
      BY <1>4, PoolAssumption DEF TypeOK
    <2> QED
      BY <1>2, <2>1, WrittenIs
  <1>6. /\ UNCHANGED <<pool, net, session, leaked, planned, dials, panicked, wrong>>
        /\ job' = [job EXCEPT ![k] = j] /\ sent' = sent + 1
    BY DEF Write
  <1> HIDE DEF j
  <1>7. job'[k] = j /\ job' \in [Caller -> Job]
    BY <1>5, <1>6, JobType DEF TypeOK
  <1>8. sent <= sent' /\ sent' \in 0..planned /\ sent' >= 1
    BY <1>4, <1>6, PoolAssumption DEF TypeOK
  <1>9. /\ mode \in Mode /\ job[k].owed \in Seq(1..MaxCmds)
        /\ Append(job[k].owed, sent + 1) \in Seq(1..MaxCmds)
        /\ Append(job[k].owed, sent + 1) # <<>>
    BY <1>2, <1>4, JobFields, AppendProperties
  <1>10. JobOK(k)'
    <2>1. owed = <<>> <=> mode \in Unanswered
      BY <1>9
    <2> HIDE DEF owed
    <2>2. j.at = "send" => j.left >= 1
      BY <1>4, <1>5
    <2>3. j.at = "read" /\ j.mode # "subscribe"
            => j.owed # <<>> /\ j.mode \notin {"forget", "drop"}
      BY <1>5, <2>1 DEF Unanswered
    <2>4. /\ j.at = "put" => j.mode # "subscribe"
          /\ j.mode \in Unanswered => j.owed = <<>>
      BY <1>5, <2>1
    <2> QED
      BY <1>7, <2>2, <2>3, <2>4 DEF JobOK
  <1>11. SUFFICES /\ inbox' \in [Conn -> Seq(1..MaxCmds)]
                  /\ \A p \in Conn \ {o} : inbox'[p] = inbox[p]
                  /\ dirty \subseteq dirty' /\ dirty' \subseteq 1..dials
                  /\ session[o] \notin dirty' /\ mode # "subscribe"
                       => /\ FirstOf(inbox'[o], owed)
                          /\ net[o] = "up" => inbox'[o] = owed
    <2>1. TypeOK'
      BY <1>6, <1>7, <1>8, <1>11 DEF TypeOK
    <2>2. ReadsOwn(k)'
      BY <1>1, <1>5, <1>6, <1>7, <1>8, <1>11 DEF ReadsOwn
    <2>3. /\ Exclusive' /\ CallerInv' /\ ConnInv' /\ OpenInv' /\ DoHasNetClient'
      BY <1>1, <1>2, <1>3, <1>5, <1>6, <1>8, <1>10, <1>11, <2>1, <2>2, HolderStep
    <2>4. Accounted'
      BY <1>2, <1>4, <1>5, <1>6, <2>1, SentIsAccounted
    <2>5. OwnReplies'
      BY <1>6, <1>11 DEF OwnReplies
    <2> QED
      BY <2>1, <2>3, <2>4, <2>5
  <1>12. /\ inbox[o] \in Seq(1..MaxCmds)
         /\ session[o] \notin dirty /\ mode # "subscribe"
              => /\ FirstOf(inbox[o], job[k].owed)
                 /\ net[o] = "up" => inbox[o] = job[k].owed
    BY <1>1, <1>2, <1>3 DEF ReadsOwn, TypeOK
  <1>13. CASE /\ net[o] = "up" /\ inbox' = [inbox EXCEPT ![o] = Append(@, sent + 1)]
              /\ dirty' = IF mode \in Unanswered
                            THEN dirty \cup {session[o]} ELSE dirty
    <2>1. Append(inbox[o], sent + 1) \in Seq(1..MaxCmds)
      BY <1>4, <1>12, AppendProperties
    <2>2. inbox' \in [Conn -> Seq(1..MaxCmds)]
      BY <1>13, <2>1 DEF TypeOK
    <2>3. /\ inbox'[o] = Append(inbox[o], sent + 1)
          /\ \A p \in Conn \ {o} : inbox'[p] = inbox[p]
      BY <1>2, <1>13 DEF TypeOK
    <2>4. dirty \subseteq dirty' /\ dirty' \subseteq 1..dials
      <3>1. session[o] \in 1..dials /\ dirty \subseteq 1..dials
        BY <1>2, <1>3 DEF TypeOK
      <3> QED
        BY <1>13, <3>1
    <2>5. ASSUME session[o] \notin dirty', mode # "subscribe"
          PROVE  FirstOf(inbox'[o], owed) /\ inbox'[o] = owed
      <3>1. mode \notin Unanswered /\ session[o] \notin dirty
        BY <1>13, <2>5
      <3>2. inbox'[o] = owed
        BY <1>12, <1>13, <2>3, <2>5, <3>1
      <3> QED
        BY <3>1, <3>2, <1>9, FirstOfSelf
    <2> QED
      BY <2>2, <2>3, <2>4, <2>5
  <1>14. CASE /\ net[o] = "down" \/ mode \in Unanswered
              /\ UNCHANGED <<inbox, dirty>>
    <2>1. ASSUME session[o] \notin dirty, mode # "subscribe"
          PROVE  /\ FirstOf(inbox[o], owed)
                 /\ net[o] = "up" => inbox[o] = owed
      <3>1. CASE mode \in Unanswered
        BY <1>3, <1>12, <2>1, <3>1 DEF JobOK
      <3>2. CASE mode \notin Unanswered
        <4>1. FirstOf(inbox[o], Append(job[k].owed, sent + 1))
          BY <1>4, <1>9, <1>12, <2>1, FirstOfAppend
        <4> QED
          BY <1>14, <3>2, <4>1
      <3> QED
        BY <3>1, <3>2
    <2> QED
      BY <1>14, <2>1 DEF TypeOK
  <1> QED
    BY <1>13, <1>14 DEF Write

\* The job of a caller that has read a reply.
LEMMA JobWasRead ==
    ASSUME TypeOK, NEW k \in Busy, JobOK(k), job[k].at = "read"
    PROVE  LET j == WasRead(job[k])
           IN  /\ j \in BusyJob /\ j.mode = job[k].mode
               /\ j.conn = job[k].conn /\ j.left = job[k].left
               /\ j.mode = "subscribe" => j = job[k]
               /\ j.mode # "subscribe" => /\ j.owed = Tail(job[k].owed)
                                          /\ job[k].owed # <<>>
                                          /\ j.at # "read" => j.owed = <<>>
               /\ j.at = "send" => j.left >= 1
               /\ j.at = "read" /\ j.mode # "subscribe" =>
                    j.owed # <<>> /\ j.mode \notin {"forget", "drop"}
               /\ j.at = "put" => j.mode # "subscribe"
               /\ j.mode \in Unanswered => j.owed = <<>>
  <1> DEFINE j == WasRead(job[k])
  <1>1. job[k] \in BusyJob /\ job[k].left \in Nat
    BY BusyJobs, JobFields, PoolAssumption DEF Busy
  <1>2. job[k].mode = "subscribe" \/ job[k].owed # <<>>
    BY DEF JobOK
  <1>3. /\ j \in BusyJob
        /\ j.mode = job[k].mode /\ j.conn = job[k].conn /\ j.left = job[k].left
        /\ job[k].mode = "subscribe" => j = job[k]
        /\ job[k].mode # "subscribe" =>
             /\ j.owed = Tail(job[k].owed)
             /\ j.at = IF Tail(job[k].owed) # <<>> THEN "read"
                       ELSE IF job[k].left > 0 THEN "send" ELSE "put"
    BY <1>1, <1>2, WasReadIs
  <1> HIDE DEF j
  <1>4. CASE job[k].mode = "subscribe"
    <2>1. j = job[k]
      BY <1>3, <1>4
    <2> QED
      BY <1>1, <1>4, <2>1 DEF JobOK, j
  <1>5. CASE job[k].mode # "subscribe"
    <2>1. job[k].mode \notin Unanswered
      BY <1>5 DEF JobOK, Unanswered
    <2>2. j.mode \notin {"forget", "drop"} /\ j.mode # "subscribe"
      BY <1>3, <1>5 DEF JobOK
    <2>3. (j.at = "send" => j.left >= 1) /\ (j.at # "read" => j.owed = <<>>)
      <3> DEFINE rest == Tail(job[k].owed)
      <3>1. /\ j.owed = rest /\ j.left = job[k].left
            /\ j.at = IF rest # <<>> THEN "read"
                      ELSE IF job[k].left > 0 THEN "send" ELSE "put"
        BY <1>3, <1>5
      <3> HIDE DEF rest
      <3> QED
        BY <1>1, <3>1
    <2>4. j.at = "read" => j.owed # <<>>
      BY <1>3, <1>5
    <2> QED
      BY <1>2, <1>3, <1>5, <2>1, <2>2, <2>3, <2>4 DEF j
  <1> QED
    BY <1>4, <1>5

\* ReadInterface returns a reply, or a part of one.
LEMMA ReadStep ==
    ASSUME PoolInv, NEW k \in Caller, Read(k)
    PROVE  PoolInv'
  <1> USE DEF PoolInv
  <1> DEFINE o == job[k].conn
             j == WasRead(job[k])
  <1>1. /\ job[k].at = "read" /\ net[o] # "nil" /\ inbox[o] # <<>>
        /\ \/ inbox' = [inbox EXCEPT ![o] = Tail(@)] /\ dirty' = dirty
           \/ dirty' = dirty \cup {session[o]} /\ inbox' = inbox
        /\ wrong' = IF \/ job[k].mode = "subscribe"
                       \/ Head(inbox[o]) = Head(job[k].owed)
                      THEN wrong ELSE wrong \cup {session[o]}
        /\ job' = [job EXCEPT ![k] = j]
        /\ UNCHANGED <<pool, net, session, leaked, planned, sent, dials,
                       panicked>>
    BY DEF Read
  <1>2. k \in Busy /\ job[k] \in BusyJob /\ o \in Conn
    BY <1>1, HolderIs
  <1>3. JobOK(k) /\ ReadsOwn(k) /\ session[o] \in 1..dials
    BY <1>1, <1>2 DEF CallerInv, ConnInv, TypeOK
  <1>4. /\ j \in BusyJob /\ j.mode = job[k].mode
        /\ j.conn = o /\ j.left = job[k].left
        /\ j.mode = "subscribe" => j = job[k]
        /\ j.mode # "subscribe" => /\ j.owed = Tail(job[k].owed)
                                   /\ job[k].owed # <<>>
                                   /\ j.at # "read" => j.owed = <<>>
        /\ j.at = "send" => j.left >= 1
        /\ j.at = "read" /\ j.mode # "subscribe" =>
             j.owed # <<>> /\ j.mode \notin {"forget", "drop"}
        /\ j.at = "put" => j.mode # "subscribe"
        /\ j.mode \in Unanswered => j.owed = <<>>
    BY <1>1, <1>2, <1>3, JobWasRead
  <1> HIDE DEF j
  <1>5. job'[k] = j /\ job' \in [Caller -> Job]
    BY <1>1, <1>4, JobType DEF TypeOK
  <1>6. inbox[o] \in Seq(1..MaxCmds) /\ job[k].owed \in Seq(1..MaxCmds)
    BY <1>2, JobFields DEF TypeOK
  <1>7. Tail(inbox[o]) \in Seq(1..MaxCmds)
    BY <1>1, <1>6, HeadTailProperties
  <1>8. /\ inbox' \in [Conn -> Seq(1..MaxCmds)]
        /\ session[o] \notin dirty' => /\ inbox'[o] = Tail(inbox[o])
                                       /\ session[o] \notin dirty
        /\ \A p \in Conn \ {o} : inbox'[p] = inbox[p]
    BY <1>1, <1>2, <1>7 DEF TypeOK
  <1>9. TypeOK'
    <2>1. wrong' \subseteq 1..dials /\ dirty' \subseteq 1..dials
      BY <1>1, <1>3 DEF TypeOK
    <2> QED
      BY <1>1, <1>5, <1>8, <2>1 DEF TypeOK
  <1>10. JobOK(k)'
    BY <1>4, <1>5 DEF JobOK
  <1>11. ASSUME session[o] \notin dirty, job[k].mode # "subscribe"
         PROVE  /\ Head(inbox[o]) = Head(job[k].owed)
                /\ FirstOf(Tail(inbox[o]), Tail(job[k].owed))
                /\ net[o] = "up" => Tail(inbox[o]) = Tail(job[k].owed)
    <2>1. FirstOf(inbox[o], job[k].owed) /\ (net[o] = "up" => inbox[o] = job[k].owed)
      BY <1>1, <1>3, <1>11 DEF ReadsOwn
    <2> QED
      BY <1>1, <1>6, <2>1, FirstOfTail
  <1>12. ReadsOwn(k)'
    <2>1. CASE job[k].mode = "subscribe"
      <3>1. j.at = "read" /\ sent >= 1
        BY <1>1, <1>3, <1>4, <2>1 DEF ReadsOwn
      <3> QED
        BY <1>1, <1>4, <1>5, <2>1, <3>1 DEF ReadsOwn
    <2>2. CASE job[k].mode # "subscribe"
      BY <1>1, <1>4, <1>5, <1>8, <1>11, <2>2 DEF ReadsOwn
    <2> QED
      BY <2>1, <2>2
  <1>13. /\ sent <= sent' /\ session'[o] >= 1 /\ net'[o] # "nil"
         /\ dirty \subseteq dirty' /\ UNCHANGED <<pool, leaked>>
         /\ \A p \in Conn \ {o} : net'[p] = net[p] /\ session'[p] = session[p]
    BY <1>1, <1>3, PoolAssumption DEF TypeOK
  <1>14. /\ Exclusive' /\ CallerInv' /\ ConnInv' /\ OpenInv' /\ DoHasNetClient'
    <2>1. job' = [job EXCEPT ![k] = j]
      BY <1>1
    <2> QED
      BY <1>2, <1>4, <1>8, <1>9, <1>10, <1>12, <1>13, <2>1, HolderStep
  <1>15. Accounted'
    BY <1>1, <1>2, <1>4, <1>9, SameOutstanding, FewerOutstanding
  <1>16. OwnReplies'
    BY <1>1, <1>11 DEF OwnReplies
  <1> QED
    BY <1>9, <1>14, <1>15, <1>16

\* ReadInterface fails.
LEMMA ReadFailsStep ==
    ASSUME PoolInv, NEW k \in Caller, ReadFails(k)
    PROVE  PoolInv'
  <1> USE DEF PoolInv
  <1> DEFINE o == job[k].conn
             j == WasRead(job[k])
  <1>1. /\ job[k].at = "read" /\ net[o] # "nil" /\ Finalize({o})
        /\ UNCHANGED <<pool, leaked, planned, sent, dials, panicked, dirty, wrong>>
    BY DEF ReadFails, histVars
  <1>2. k \in Busy /\ job[k] \in BusyJob /\ o \in Conn
    BY <1>1, HolderIs
  <1>3. /\ net' \in [Conn -> {"nil", "up", "down"}]
        /\ inbox' \in [Conn -> Seq(1..MaxCmds)]
        /\ net'[o] = "nil" /\ inbox'[o] = <<>> /\ UNCHANGED session
        /\ \A p \in Conn \ {o} : net'[p] = net[p] /\ inbox'[p] = inbox[p]
    BY <1>1, <1>2, FinalizeIs
  <1>4. CASE job[k].mode \notin {"pipelined", "subscribe"}
    <2>1. Fails(k)
      BY <1>4 DEF ReadFails
    <2> QED
      BY <1>1, <1>3, <2>1, FailsStep
  <1>5. CASE job[k].mode \in {"pipelined", "subscribe"}
    <2>1. JobOK(k) /\ job' = [job EXCEPT ![k] = j]
      BY <1>2, <1>5 DEF CallerInv, ReadFails
    <2>2. /\ j \in BusyJob /\ j.mode = job[k].mode
          /\ j.conn = o /\ j.left = job[k].left
          /\ j.mode = "subscribe" => j = job[k]
          /\ j.mode # "subscribe" /\ j.at # "read" => j.owed = <<>>
          /\ j.at = "send" => j.left >= 1
          /\ j.at = "read" /\ j.mode # "subscribe" =>
               j.owed # <<>> /\ j.mode \notin {"forget", "drop"}
          /\ j.at = "put" => j.mode # "subscribe"
          /\ j.mode \in Unanswered => j.owed = <<>>
      BY <1>1, <1>2, <2>1, JobWasRead
    <2> HIDE DEF j
    <2>3. job'[k] = j /\ job' \in [Caller -> Job]
      BY <2>1, <2>2, JobType DEF TypeOK
    <2>4. TypeOK'
      BY <1>1, <1>3, <2>3 DEF TypeOK
    <2>5. JobOK(k)'
      BY <2>2, <2>3 DEF JobOK
    <2>6. ReadsOwn(k)'
      <3>1. j.at = "send" => j.mode # "subscribe"
        BY <1>1, <2>2
      <3> QED
        BY <1>3, <2>2, <2>3, <3>1 DEF ReadsOwn
    <2>7. sent <= sent'
      BY <1>1, PoolAssumption DEF TypeOK
    <2>8. /\ Exclusive' /\ CallerInv' /\ ConnInv' /\ OpenInv' /\ DoHasNetClient'
      BY <1>1, <1>2, <1>3, <1>5, <2>1, <2>2, <2>4, <2>5, <2>6, <2>7, HolderStep
    <2>9. Accounted'
      BY <1>1, <1>2, <2>1, <2>2, <2>4, SameOutstanding, FewerOutstanding
    <2> QED
      BY <1>1, <2>4, <2>8, <2>9 DEF OwnReplies
  <1> QED
    BY <1>4, <1>5

\* PoolInv does not depend on panicked, beyond its type.
LEMMA SameState ==
    ASSUME PoolInv, panicked' \in BOOLEAN,
           UNCHANGED <<pool, job, net, session, inbox, leaked, planned, sent,
                       dials, dirty, wrong>>
    PROVE  PoolInv'
  <1> USE DEF PoolInv
  <1>1. Busy' = Busy /\ Held' = Held /\ Outstanding' = Outstanding
    BY DEF Busy, Held, Outstanding
  <1>2. TypeOK'
    BY DEF TypeOK
  <1>3. Exclusive' /\ OpenInv' /\ ConnInv'
    BY <1>1 DEF Exclusive, OpenInv, ConnInv
  <1>4. Accounted' /\ OwnReplies' /\ DoHasNetClient'
    BY <1>1 DEF Accounted, OwnReplies, DoHasNetClient
  <1>5. CallerInv'
    BY <1>1 DEF CallerInv, JobOK, ReadsOwn
  <1> QED
    BY <1>2, <1>3, <1>4, <1>5

\* Read on a nil netClient.
LEMMA ReadPanicsStep ==
    ASSUME PoolInv, NEW k \in Caller, ReadPanics(k)
    PROVE  PoolInv'
  BY SameState DEF ReadPanics, netVars, histVars

\* The server sends a subscriber a message.
LEMMA PushStep ==
    ASSUME PoolInv, NEW k \in Caller, Push(k)
    PROVE  PoolInv'
  <1> USE DEF PoolInv
  <1> DEFINE o == job[k].conn
  <1>1. /\ job[k].at = "read" /\ job[k].mode = "subscribe" /\ net[o] = "up"
        /\ inbox' = [inbox EXCEPT ![o] = <<sent>>]
        /\ UNCHANGED <<pool, job, net, session, leaked, planned, sent, dials,
                       panicked, dirty, wrong>>
    BY DEF Push, histVars
  <1>2. k \in Busy /\ job[k] \in BusyJob /\ o \in Conn
    BY <1>1, HolderIs
  <1>3. JobOK(k) /\ ReadsOwn(k) /\ session[o] >= 1
    BY <1>1, <1>2 DEF CallerInv, ConnInv
  <1>4. sent \in 1..MaxCmds /\ sent \in Nat
    BY <1>1, <1>3, PoolAssumption DEF ReadsOwn, TypeOK
  <1>5. <<sent>> \in Seq(1..MaxCmds)
    BY <1>4
  <1>6. /\ inbox' \in [Conn -> Seq(1..MaxCmds)]
        /\ \A p \in Conn \ {o} : inbox'[p] = inbox[p]
    BY <1>1, <1>5 DEF TypeOK
  <1>7. TypeOK'
    BY <1>1, <1>6 DEF TypeOK
  <1>8. job' = [job EXCEPT ![k] = job[k]]
    BY <1>1 DEF TypeOK
  <1>9. JobOK(k)'
    BY <1>1, <1>3 DEF JobOK
  <1>10. ReadsOwn(k)'
    BY <1>1, <1>4 DEF ReadsOwn
  <1>11. /\ sent <= sent' /\ session'[o] >= 1 /\ net'[o] # "nil"
         /\ dirty \subseteq dirty' /\ UNCHANGED <<pool, leaked>>
         /\ \A p \in Conn \ {o} : net'[p] = net[p] /\ session'[p] = session[p]
    BY <1>1, <1>3, <1>4
  <1>12. /\ Exclusive' /\ CallerInv' /\ ConnInv' /\ OpenInv' /\ DoHasNetClient'
    BY <1>2, <1>6, <1>7, <1>8, <1>9, <1>10, <1>11, HolderStep
  <1>13. Accounted'
    BY <1>1, <1>2, <1>7, <1>8, SameOutstanding, FewerOutstanding
  <1> QED
    BY <1>1, <1>7, <1>12, <1>13 DEF OwnReplies

\* A first part of a first part.
LEMMA FirstOfSubSeq ==
    ASSUME NEW S, NEW s \in Seq(S), NEW t, FirstOf(s, t), NEW n \in 0..Len(s),
           Len(t) \in Nat
    PROVE  FirstOf(SubSeq(s, 1, n), t)
  <1>1. Len(s) \in Nat /\ n \in Int /\ n <= Len(s)
    BY LenProperties
  <1>2. \A i \in 1..n : s[i] \in S
    BY <1>1, ElementOfSeq
  <1>3. /\ Len(SubSeq(s, 1, n)) = n
        /\ \A i \in 1..n : SubSeq(s, 1, n)[i] = s[i]
    BY <1>1, <1>2, SubSeqProperties
  <1> QED
    BY <1>1, <1>3 DEF FirstOf

\* The server hangs up, on a connection that anybody may hold.
LEMMA HangUpStep ==
    ASSUME PoolInv, NEW o \in Conn, HangUp(o)
    PROVE  PoolInv'
  <1> USE DEF PoolInv
  <1>1. /\ net[o] = "up" /\ net' = [net EXCEPT ![o] = "down"]
        /\ UNCHANGED <<pool, job, session, leaked, planned, sent, dials,
                       panicked, dirty, wrong>>
    BY DEF HangUp, histVars
  <1>2. PICK n \in 0..Len(inbox[o]) :
          inbox' = [inbox EXCEPT ![o] = SubSeq(@, 1, n)]
    BY DEF HangUp
  <1> DEFINE rest == SubSeq(inbox[o], 1, n)
  <1>3. /\ inbox[o] \in Seq(1..MaxCmds) /\ Len(inbox[o]) \in Nat
        /\ n \in Nat /\ n <= Len(inbox[o])
    BY LenProperties DEF TypeOK
  <1>4. rest \in Seq(1..MaxCmds) /\ Len(rest) = n
    <2>1. ASSUME NEW i \in 1..n PROVE inbox[o][i] \in 1..MaxCmds
      <3>1. i \in 1..Len(inbox[o])
        BY <1>3
      <3> QED
        BY <1>3, <3>1, ElementOfSeq
    <2> QED
      BY <1>3, <2>1, SubSeqProperties
  <1>5. inbox[o] = <<>> => rest = <<>>
    <2> SUFFICES ASSUME inbox[o] = <<>> PROVE rest = <<>>
      OBVIOUS
    <2>1. Len(inbox[o]) = 0
      BY EmptySeq
    <2>2. n = 0
      BY <1>3, <2>1
    <2> QED
      BY <1>4, <2>2, EmptySeq
  <1>6. /\ inbox' \in [Conn -> Seq(1..MaxCmds)] /\ inbox'[o] = rest
        /\ net' \in [Conn -> {"nil", "up", "down"}] /\ net'[o] = "down"
        /\ \A p \in Conn \ {o} : inbox'[p] = inbox[p] /\ net'[p] = net[p]
    BY <1>1, <1>2, <1>4 DEF TypeOK
  <1> HIDE DEF rest
  <1>7. Busy' = Busy /\ Held' = Held /\ Outstanding' = Outstanding
    BY <1>1 DEF Busy, Held, Outstanding
  <1>8. TypeOK'
    BY <1>1, <1>6 DEF TypeOK
  <1>9. Exclusive' /\ Accounted' /\ OwnReplies'
    BY <1>1, <1>7 DEF Exclusive, Accounted, OwnReplies
  <1>10. \A p \in Conn : net'[p] = "nil" <=> net[p] = "nil"
    BY <1>1, <1>6
  <1>11. \A k \in Busy : job[k] \in BusyJob /\ job[k].conn \in Conn
    BY BusyJobs, JobFields DEF Busy
  <1>12. ConnInv'
    <2>1. ToSet(pool) \subseteq Conn
      BY LenProperties DEF ToSet, TypeOK
    <2>2. \A p \in Conn : inbox[p] = <<>> => inbox'[p] = <<>>
      BY <1>5, <1>6
    <2> QED
      BY <1>1, <1>10, <2>1, <2>2 DEF ConnInv
  <1>13. OpenInv'
    BY <1>1, <1>7, <1>10 DEF OpenInv
  <1>14. DoHasNetClient'
    BY <1>1, <1>7, <1>10, <1>11 DEF DoHasNetClient
  <1>15. CallerInv'
    <2> SUFFICES ASSUME NEW k \in Busy PROVE JobOK(k)' /\ ReadsOwn(k)'
      BY <1>7 DEF CallerInv
    <2>1. JobOK(k) /\ ReadsOwn(k)
      BY DEF CallerInv
    <2>2. JobOK(k)'
      BY <1>1, <2>1 DEF JobOK
    <2>3. CASE job[k].conn # o
      BY <1>1, <1>6, <1>11, <2>1, <2>2, <2>3 DEF ReadsOwn
    <2>4. CASE job[k].conn = o
      <3>1. job[k].owed \in Seq(1..MaxCmds) /\ Len(job[k].owed) \in Nat
        BY <1>11, JobFields, LenProperties
      <3>2. FirstOf(inbox[o], job[k].owed) => FirstOf(rest, job[k].owed)
        BY <1>3, <3>1, FirstOfSubSeq DEF rest
      <3> QED
        BY <1>1, <1>6, <2>1, <2>2, <2>4, <3>2 DEF ReadsOwn
    <2> QED
      BY <2>3, <2>4
  <1> QED
    BY <1>8, <1>9, <1>12, <1>13, <1>14, <1>15

-----------------------------------------------------------------------------
(* The pool                                                                *)

\* The list without its first connection.
LEMMA TailOfPool ==
    ASSUME NEW S, NEW s \in Seq(S), s # <<>>, IsInjective(s)
    PROVE  /\ Head(s) \in S /\ Tail(s) \in Seq(S) /\ Len(Tail(s)) <= Len(s)
           /\ Head(s) \in ToSet(s) /\ Head(s) \notin ToSet(Tail(s))
           /\ ToSet(s) = ToSet(Tail(s)) \cup {Head(s)}
           /\ IsInjective(Tail(s))
  <1>1. /\ Len(s) \in Nat \ {0} /\ DOMAIN s = 1..Len(s) /\ Head(s) = s[1]
        /\ Head(s) \in S
    BY LenProperties, EmptySeq, HeadTailProperties
  <1>2. /\ Tail(s) \in Seq(S) /\ Len(Tail(s)) = Len(s) - 1
        /\ \A i \in 1..Len(Tail(s)) : Tail(s)[i] = s[i + 1]
    BY HeadTailProperties
  <1>3. DOMAIN Tail(s) = 1..(Len(s) - 1)
    BY <1>2, LenProperties
  <1>4. \A i \in 1..(Len(s) - 1) : Tail(s)[i] = s[i + 1] /\ i + 1 \in 1..Len(s)
    BY <1>1, <1>2
  <1>5. \A i, j \in 1..Len(s) : s[i] = s[j] => i = j
    BY <1>1 DEF IsInjective
  <1>6. IsInjective(Tail(s))
    BY <1>3, <1>4, <1>5 DEF IsInjective
  <1>7. Head(s) \notin ToSet(Tail(s))
    <2> SUFFICES ASSUME NEW i \in 1..(Len(s) - 1), Tail(s)[i] = s[1] PROVE FALSE
      BY <1>1, <1>3 DEF ToSet
    <2>1. i + 1 = 1
      BY <1>1, <1>4, <1>5
    <2> QED
      BY <2>1, <1>1
  <1>8. ASSUME NEW x \in ToSet(s) PROVE x \in ToSet(Tail(s)) \cup {Head(s)}
    <2>1. PICK i \in 1..Len(s) : x = s[i]
      BY <1>1 DEF ToSet
    <2>2. CASE i = 1
      BY <1>1, <2>1, <2>2
    <2>3. CASE i # 1
      <3>1. i - 1 \in 1..(Len(s) - 1) /\ (i - 1) + 1 = i
        BY <1>1, <2>3
      <3>2. Tail(s)[i - 1] = x
        BY <1>4, <2>1, <3>1
      <3> QED
        BY <1>3, <3>1, <3>2 DEF ToSet
    <2> QED
      BY <2>2, <2>3
  <1>9. ASSUME NEW x \in ToSet(Tail(s)) PROVE x \in ToSet(s)
    BY <1>1, <1>3, <1>4 DEF ToSet
  <1>10. Head(s) \in ToSet(s)
    BY <1>1 DEF ToSet
  <1> QED
    BY <1>1, <1>2, <1>6, <1>7, <1>8, <1>9, <1>10

\* The list with a connection more in front.
LEMMA PushedOnPool ==
    ASSUME NEW S, NEW s \in Seq(S), NEW x \in S, IsInjective(s),
           x \notin ToSet(s)
    PROVE  /\ <<x>> \o s \in Seq(S) /\ Len(<<x>> \o s) = Len(s) + 1
           /\ ToSet(<<x>> \o s) = ToSet(s) \cup {x}
           /\ IsInjective(<<x>> \o s)
  <1> DEFINE t == <<x>> \o s
  <1>1. Len(s) \in Nat /\ DOMAIN s = 1..Len(s)
    BY LenProperties
  <1>2. <<x>> \in Seq(S) /\ Len(<<x>>) = 1 /\ <<x>>[1] = x
    OBVIOUS
  <1>3. /\ t \in Seq(S) /\ Len(t) = Len(s) + 1
        /\ \A i \in 1..(Len(s) + 1) : t[i] = IF i <= 1 THEN <<x>>[i] ELSE s[i - 1]
    BY <1>1, <1>2, ConcatProperties
  <1> HIDE DEF t
  <1>4. DOMAIN t = 1..(Len(s) + 1)
    BY <1>3, LenProperties
  <1>5. t[1] = x /\ \A i \in 1..(Len(s) + 1) : i # 1 => /\ t[i] = s[i - 1]
                                                      /\ i - 1 \in 1..Len(s)
    BY <1>1, <1>2, <1>3
  <1>6. \A i \in 1..Len(s) : s[i] = t[i + 1] /\ i + 1 \in 1..(Len(s) + 1)
    BY <1>1, <1>5
  <1>7. \A i \in 1..Len(s) : s[i] # x
    BY <1>1 DEF ToSet
  <1>8. \A i, j \in 1..Len(s) : s[i] = s[j] => i = j
    BY <1>1 DEF IsInjective
  <1>9. IsInjective(t)
    <2> SUFFICES ASSUME NEW i \in 1..(Len(s) + 1), NEW j \in 1..(Len(s) + 1),
                        t[i] = t[j]
                 PROVE  i = j
      BY <1>4 DEF IsInjective
    <2>1. CASE i = 1 \/ j = 1
      BY <1>5, <1>7, <2>1
    <2>2. CASE i # 1 /\ j # 1
      <3>1. i - 1 = j - 1
        BY <1>5, <1>8, <2>2
      <3> QED
        BY <1>1, <3>1
    <2> QED
      BY <2>1, <2>2
  <1>10. ToSet(t) = ToSet(s) \cup {x}
    <2>1. ASSUME NEW y \in ToSet(t) PROVE y \in ToSet(s) \cup {x}
      BY <1>1, <1>4, <1>5, ZenonT(60) DEF ToSet
    <2>2. ASSUME NEW y \in ToSet(s) PROVE y \in ToSet(t)
      BY <1>1, <1>4, <1>6 DEF ToSet
    <2>3. x \in ToSet(t)
      BY <1>1, <1>4, <1>5 DEF ToSet
    <2> QED
      BY <2>1, <2>2, <2>3
  <1> QED
    BY <1>3, <1>9, <1>10 DEF t

\* The callers' connections are connections, and differ from one another.
LEMMA OthersHold ==
    ASSUME TypeOK, Exclusive, NEW k \in Busy
    PROVE  /\ job[k].conn \in Conn /\ job[k].conn \in Held
           /\ job[k].conn \notin ToSet(pool) /\ job[k].conn \notin leaked
           /\ \A l \in Busy \ {k} : job[l].conn \in Conn \ {job[k].conn}
  <1>1. \A l \in Busy : job[l].conn \in Conn
    BY BusyJobs, JobFields DEF Busy
  <1> QED
    BY <1>1 DEF Exclusive, Held

\* n commands more are outstanding, and planned.
LEMMA MoreOutstanding ==
    ASSUME TypeOK, TypeOK', Accounted, NEW k \in Caller, NEW n \in 1..MaxBatch,
           job[k] = Idle, NEW j \in BusyJob, j.left = n,
           job' = [job EXCEPT ![k] = j], planned' = planned + n, sent' = sent
    PROVE  Accounted'
  <1> DEFINE new == {k} \X (1..n)
  <1>1. job'[k] = j /\ \A l \in Caller \ {k} : job'[l] = job[l]
    BY DEF TypeOK
  <1>2. j # Idle
    BY DEF BusyJob, Idle
  <1>3. Outstanding' = Outstanding \cup new
    <2>1. ASSUME NEW l \in Caller, NEW i \in 1..MaxBatch
          PROVE  <<l, i>> \in Outstanding' <=> <<l, i>> \in Outstanding \cup new
      <3>1. <<l, i>> \in Outstanding <=> job[l] # Idle /\ i <= job[l].left
        BY DEF Outstanding
      <3>2. <<l, i>> \in Outstanding' <=> job'[l] # Idle /\ i <= job'[l].left
        BY DEF Outstanding, Idle
      <3>3. CASE l = k
        BY <1>1, <1>2, <3>1, <3>2, <3>3
      <3>4. CASE l # k
        BY <1>1, <3>1, <3>2, <3>4
      <3> QED
        BY <3>3, <3>4
    <2>2. new \subseteq Caller \X (1..MaxBatch)
      BY PoolAssumption
    <2> HIDE DEF new
    <2>3. /\ Outstanding \subseteq Caller \X (1..MaxBatch)
          /\ Outstanding' \subseteq Caller \X (1..MaxBatch)
      BY DEF Outstanding
    <2> QED
      BY <2>1, <2>2, <2>3
  <1>4. IsFiniteSet(new) /\ Cardinality(new) = n
    <2>1. IsFiniteSet(1..n) /\ Cardinality(1..n) = n
      BY FS_Interval, PoolAssumption
    <2>2. IsFiniteSet({k}) /\ Cardinality({k}) = 1
      BY FS_Singleton
    <2>3. IsFiniteSet(new) /\ Cardinality(new) = 1 * n
      <3>1. /\ IsFiniteSet(new)
            /\ Cardinality(new) = Cardinality({k}) * Cardinality(1..n)
        BY <2>1, <2>2, FS_Product, Zenon
      <3> QED
        BY <2>1, <2>2, <3>1, Zenon
    <2> QED
      BY <2>3, PoolAssumption
  <1> HIDE DEF new
  <1>5. /\ IsFiniteSet(Outstanding \cup new)
        /\ Cardinality(Outstanding \cup new)
             = Cardinality(Outstanding) + n - Cardinality(Outstanding \cap new)
    BY <1>4, FS_Union DEF Accounted
  <1>6. /\ Cardinality(Outstanding) \in Nat
        /\ Cardinality(Outstanding \cap new) \in Nat
        /\ sent \in Nat /\ planned \in Nat /\ n \in Nat
    <2>1. IsFiniteSet(Outstanding \cap new)
      BY <1>4, FS_Intersection
    <2> QED
      BY <2>1, FS_CardinalityType, PoolAssumption DEF Accounted, TypeOK
  <1> QED
    BY <1>3, <1>5, <1>6 DEF Accounted

\* get: the connection is out of the pool, and nobody else's.
LEMMA GetStep ==
    ASSUME PoolInv, NEW k \in Caller, NEW mode \in Mode, NEW n \in 1..MaxBatch,
           Get(k, mode, n)
    PROVE  PoolInv'
  <1> USE DEF PoolInv
  <1>1. job[k] = Idle /\ planned + n <= MaxCmds
    BY DEF Get
  <1>2. PICK o \in Taken : Start(k, mode, n, o)
    BY DEF Get
  <1> DEFINE j == [at |-> "send", mode |-> mode, conn |-> o, left |-> n,
                   owed |-> <<>>]
  <1>3. /\ job' = [job EXCEPT ![k] = j] /\ planned' = planned + n
        /\ UNCHANGED <<net, session, inbox, leaked, sent, dials, panicked,
                       dirty, wrong>>
    BY <1>2 DEF Start, netVars, histVars
  <1>4. /\ o \in Conn /\ o \notin Held /\ o \notin leaked
        /\ pool' \in Seq(Conn) /\ Len(pool') <= Len(pool) /\ IsInjective(pool')
        /\ o \notin ToSet(pool') /\ ToSet(pool') \subseteq ToSet(pool)
        /\ ToSet(pool) \subseteq ToSet(pool') \cup {o}
        /\ net[o] # "nil" /\ session[o] \notin dirty => inbox[o] = <<>>
    <2>1. CASE pool = <<>>
      <3>1. pool' = pool /\ o \in Conn \ (Held \cup leaked)
        BY <2>1 DEF Get, Taken
      <3>2. ToSet(pool) = {}
        BY <2>1 DEF ToSet
      <3>3. net[o] = "nil"
        BY <3>1, <3>2 DEF OpenInv
      <3> QED
        BY <3>1, <3>2, <3>3, LenProperties DEF TypeOK, Exclusive
    <2>2. CASE pool # <<>>
      <3>1. pool' = Tail(pool) /\ o = Head(pool)
        BY <2>2 DEF Get, Taken
      <3>2. /\ Head(pool) \in Conn /\ Tail(pool) \in Seq(Conn)
            /\ Len(Tail(pool)) <= Len(pool)
            /\ Head(pool) \in ToSet(pool) /\ Head(pool) \notin ToSet(Tail(pool))
            /\ ToSet(pool) = ToSet(Tail(pool)) \cup {Head(pool)}
            /\ IsInjective(Tail(pool))
        BY <2>2, TailOfPool DEF TypeOK, Exclusive
      <3> QED
        BY <3>1, <3>2 DEF Exclusive, ConnInv
    <2> QED
      BY <2>1, <2>2
  <1>5. j \in BusyJob
    <2>1. <<>> \in Seq(1..MaxCmds) /\ n \in 0..MaxBatch
      BY EmptySeq, PoolAssumption
    <2> QED
      BY <1>4, <2>1 DEF BusyJob
  <1>6. /\ j.at = "send" /\ j.mode = mode /\ j.conn = o /\ j.left = n
        /\ j.owed = <<>>
    OBVIOUS
  <1> HIDE DEF j
  <1>7. /\ job' \in [Caller -> Job] /\ job'[k] = j
        /\ \A l \in Caller \ {k} : job'[l] = job[l]
    BY <1>3, <1>5, JobType DEF TypeOK
  <1>8. TypeOK'
    <2>1. planned' \in 0..MaxCmds /\ sent \in 0..planned'
      BY <1>1, <1>3, PoolAssumption DEF TypeOK
    <2> QED
      BY <1>3, <1>4, <1>7, <2>1 DEF TypeOK
  <1>9. k \notin Busy /\ j # Idle
    BY <1>1, <1>5 DEF Busy, BusyJob, Idle
  <1>10. Busy' = Busy \cup {k}
    <2>1. \A l \in Caller : l \in Busy' <=> l \in Busy \cup {k}
      BY <1>7, <1>9 DEF Busy, Idle
    <2> QED
      BY <2>1 DEF Busy
  <1>11. \A l \in Busy : /\ l \in Caller /\ l # k /\ job'[l] = job[l]
                         /\ job[l].conn \in Held /\ job[l].conn # o
    BY <1>4, <1>7, <1>9 DEF Busy, Held
  <1>12. Held' = Held \cup {o}
    BY <1>6, <1>7, <1>10, <1>11 DEF Held
  <1>13. Exclusive'
    <2>1. ToSet(pool') \cap (Held' \cup leaked') = {} /\ Held' \cap leaked' = {}
      BY <1>3, <1>4, <1>12 DEF Exclusive
    <2>2. \A l, m \in Busy' : l # m => job'[l].conn # job'[m].conn
      BY <1>6, <1>7, <1>10, <1>11 DEF Exclusive
    <2> QED
      BY <1>4, <2>1, <2>2 DEF Exclusive
  <1>14. Accounted'
    BY <1>1, <1>3, <1>5, <1>6, <1>8, MoreOutstanding
  <1>15. CallerInv'
    <2> SUFFICES ASSUME NEW l \in Busy' PROVE JobOK(l)' /\ ReadsOwn(l)'
      BY DEF CallerInv
    <2>1. CASE l = k
      <3>1. JobOK(k)'
        BY <1>6, <1>7 DEF JobOK
      <3>2. FirstOf(<<>>, <<>>)
        BY DEF FirstOf
      <3>3. ReadsOwn(k)'
        BY <1>3, <1>4, <1>6, <1>7, <3>2 DEF ReadsOwn
      <3> QED
        BY <2>1, <3>1, <3>3
    <2>2. CASE l # k
      <3>1. JobOK(l) /\ ReadsOwn(l) /\ job'[l] = job[l]
        BY <1>10, <1>11, <2>2 DEF CallerInv
      <3> QED
        BY <1>3, <3>1 DEF JobOK, ReadsOwn
    <2> QED
      BY <2>1, <2>2
  <1>16. ConnInv'
    BY <1>3, <1>4 DEF ConnInv
  <1>17. OpenInv'
    <2>1. IsFiniteSet(Busy')
      BY <1>10, FS_AddElement DEF OpenInv
    <2>2. Len(pool') <= MaxIdle
      BY <1>4, LenProperties, PoolAssumption DEF OpenInv, TypeOK
    <2> QED
      BY <1>3, <1>4, <1>12, <2>1, <2>2 DEF OpenInv
  <1>18. DoHasNetClient'
    BY <1>3, <1>6, <1>7, <1>10, <1>11 DEF DoHasNetClient
  <1>19. OwnReplies'
    BY <1>3 DEF OwnReplies
  <1> QED
    BY <1>8, <1>13, <1>14, <1>15, <1>16, <1>17, <1>18, <1>19

\* A caller is done with its connection.
LEMMA Leaves ==
    ASSUME TypeOK, Exclusive, NEW k \in Busy, job' = [job EXCEPT ![k] = Idle]
    PROVE  /\ job' \in [Caller -> Job]
           /\ Busy' = Busy \ {k} /\ Held' = Held \ {job[k].conn}
           /\ \A l \in Busy \ {k} : job'[l] = job[l]
           /\ Outstanding' \subseteq Outstanding
  <1>1. k \in Caller /\ Busy \subseteq Caller
    BY DEF Busy
  <1>2. /\ job' \in [Caller -> Job] /\ job'[k] = Idle
        /\ \A l \in Caller \ {k} : job'[l] = job[l]
    BY <1>1 DEF TypeOK, Job
  <1>3. Busy' = Busy \ {k}
    <2>1. \A l \in Caller : l \in Busy' <=> job'[l] # Idle
      BY DEF Busy, Idle
    <2>2. \A l \in Caller : l \in Busy <=> job[l] # Idle
      BY DEF Busy
    <2>3. Busy' \subseteq Caller
      BY DEF Busy
    <2> QED
      BY <1>1, <1>2, <2>1, <2>2, <2>3
  <1>4. Held' = Held \ {job[k].conn}
    BY <1>1, <1>2, <1>3, OthersHold DEF Held
  <1>5. Outstanding' \subseteq Outstanding
    <2>1. ASSUME NEW l \in Caller, NEW i \in 1..MaxBatch, <<l, i>> \in Outstanding'
          PROVE  <<l, i>> \in Outstanding
      <3>1. job'[l] # Idle /\ i <= job'[l].left
        BY <2>1 DEF Outstanding, Idle
      <3> QED
        BY <1>2, <3>1 DEF Outstanding
    <2>2. Outstanding' \subseteq Caller \X (1..MaxBatch)
      BY DEF Outstanding
    <2> QED
      BY <2>1, <2>2
  <1> QED
    BY <1>1, <1>2, <1>3, <1>4, <1>5

\* What holds of the callers that stay, if their connections stay as they were.
LEMMA OthersStay ==
    ASSUME PoolInv, NEW k \in Busy, Busy' = Busy \ {k},
           \A l \in Busy \ {k} : job'[l] = job[l],
           \A p \in Conn \ {job[k].conn} : net'[p] = net[p] /\ inbox'[p] = inbox[p],
           UNCHANGED <<session, dirty, sent>>
    PROVE  CallerInv' /\ DoHasNetClient'
  <1> USE DEF PoolInv
  <1>1. \A l \in Busy \ {k} : /\ job'[l] = job[l]
                              /\ net'[job[l].conn] = net[job[l].conn]
                              /\ inbox'[job[l].conn] = inbox[job[l].conn]
    BY OthersHold
  <1>2. CallerInv'
    <2> SUFFICES ASSUME NEW l \in Busy \ {k} PROVE JobOK(l)' /\ ReadsOwn(l)'
      BY DEF CallerInv
    <2>1. JobOK(l) /\ ReadsOwn(l)
      BY DEF CallerInv
    <2> QED
      BY <1>1, <2>1 DEF JobOK, ReadsOwn
  <1>3. DoHasNetClient'
    BY <1>1 DEF DoHasNetClient
  <1> QED
    BY <1>2, <1>3

\* put: the connection goes to the front of the pool, or is finalized.
LEMMA PutStep ==
    ASSUME PoolInv, NEW k \in Caller, Put(k)
    PROVE  PoolInv'
  <1> USE DEF PoolInv
  <1> DEFINE o == job[k].conn
  <1>1. /\ job[k].at = "put" /\ job' = [job EXCEPT ![k] = Idle]
        /\ UNCHANGED <<leaked, planned, sent, dials, panicked, dirty, wrong>>
    BY DEF Put, histVars
  <1>2. k \in Busy /\ job[k] \in BusyJob
    BY <1>1, HolderIs
  <1>3. /\ job' \in [Caller -> Job] /\ Busy' = Busy \ {k} /\ Held' = Held \ {o}
        /\ \A l \in Busy \ {k} : job'[l] = job[l]
        /\ Outstanding' \subseteq Outstanding
    BY <1>1, <1>2, Leaves
  <1>4. /\ o \in Conn /\ o \in Held /\ o \notin ToSet(pool) /\ o \notin leaked
        /\ \A l \in Busy \ {k} : job[l].conn \in Conn \ {o}
    BY <1>2, OthersHold
  <1>5. Accounted'
    BY <1>1, <1>3, FewerOutstanding
  <1>6. OwnReplies'
    BY <1>1 DEF OwnReplies
  <1>7. IsFiniteSet(Busy')
    BY <1>3, FS_RemoveElement DEF OpenInv
  <1>8. \A l, m \in Busy' : l # m => job'[l].conn # job'[m].conn
    BY <1>3 DEF Exclusive
  <1>9. CASE Len(pool) >= MaxIdle
    <2>1. Finalize({o}) /\ UNCHANGED pool
      BY <1>9 DEF Put
    <2>2. /\ net' \in [Conn -> {"nil", "up", "down"}]
          /\ inbox' \in [Conn -> Seq(1..MaxCmds)]
          /\ net'[o] = "nil" /\ inbox'[o] = <<>> /\ UNCHANGED session
          /\ \A p \in Conn \ {o} : net'[p] = net[p] /\ inbox'[p] = inbox[p]
      BY <1>4, <2>1, FinalizeIs
    <2>3. TypeOK'
      BY <1>1, <1>3, <2>1, <2>2 DEF TypeOK
    <2>4. Exclusive'
      BY <1>1, <1>3, <1>8, <2>1 DEF Exclusive
    <2>5. CallerInv' /\ DoHasNetClient'
      BY <1>1, <1>2, <1>3, <2>2, OthersStay
    <2>6. ConnInv'
      <3>1. ToSet(pool) \subseteq Conn \ {o}
        BY <1>4, LenProperties DEF ToSet, TypeOK
      <3>2. ASSUME NEW p \in Conn
            PROVE  IF net'[p] = "nil" THEN inbox'[p] = <<>> ELSE session'[p] >= 1
        BY <2>2 DEF ConnInv
      <3>3. ASSUME NEW p \in ToSet(pool), net'[p] # "nil", session'[p] \notin dirty'
            PROVE  inbox'[p] = <<>>
        BY <1>1, <2>2, <3>1, <3>3 DEF ConnInv
      <3> QED
        BY <2>1, <3>2, <3>3 DEF ConnInv
    <2>7. OpenInv'
      <3>1. ASSUME NEW p \in Conn, net'[p] # "nil"
            PROVE  p \in ToSet(pool) \cup (Held \ {o}) \cup leaked
        BY <2>2, <3>1 DEF OpenInv
      <3> QED
        BY <1>1, <1>3, <1>7, <2>1, <3>1 DEF OpenInv
    <2> QED
      BY <1>5, <1>6, <2>3, <2>4, <2>5, <2>6, <2>7
  <1>10. CASE ~(Len(pool) >= MaxIdle)
    <2>1. pool' = <<o>> \o pool /\ UNCHANGED <<net, session, inbox>>
      BY <1>10 DEF Put, netVars
    <2>2. /\ pool' \in Seq(Conn) /\ Len(pool') = Len(pool) + 1
          /\ ToSet(pool') = ToSet(pool) \cup {o} /\ IsInjective(pool')
      BY <1>4, <2>1, PushedOnPool DEF TypeOK, Exclusive
    <2>3. TypeOK'
      BY <1>1, <1>3, <2>1, <2>2 DEF TypeOK
    <2>4. Exclusive'
      <3>1. ToSet(pool') \cap (Held' \cup leaked') = {} /\ Held' \cap leaked' = {}
        BY <1>1, <1>3, <1>4, <2>2 DEF Exclusive
      <3> QED
        BY <1>8, <2>2, <3>1 DEF Exclusive
    <2>5. CallerInv' /\ DoHasNetClient'
      BY <1>1, <1>2, <1>3, <2>1, OthersStay
    <2>6. net[o] # "nil" /\ session[o] \notin dirty => inbox[o] = <<>>
      <3> SUFFICES ASSUME net[o] # "nil", session[o] \notin dirty
                   PROVE  inbox[o] = <<>>
        OBVIOUS
      <3>1. JobOK(k) /\ ReadsOwn(k)
        BY <1>2 DEF CallerInv
      <3>2. FirstOf(inbox[o], job[k].owed) /\ job[k].owed = <<>>
        BY <1>1, <3>1 DEF JobOK, ReadsOwn
      <3>3. Len(inbox[o]) <= 0
        BY <3>2, EmptySeq DEF FirstOf
      <3>4. inbox[o] \in Seq(1..MaxCmds)
        BY <1>4 DEF TypeOK
      <3> QED
        BY <3>3, <3>4, EmptySeq
    <2>7. ConnInv'
      BY <1>1, <2>1, <2>2, <2>6 DEF ConnInv
    <2>8. OpenInv'
      <3>1. Len(pool') <= MaxIdle
        BY <1>10, <2>2, LenProperties, PoolAssumption DEF TypeOK
      <3> QED
        BY <1>1, <1>3, <1>7, <2>1, <2>2, <3>1 DEF OpenInv
    <2> QED
      BY <1>5, <1>6, <2>3, <2>4, <2>5, <2>7, <2>8
  <1> QED
    BY <1>9, <1>10

\* Client.DoAsync drops its connection.
LEMMA DropStep ==
    ASSUME PoolInv, NEW k \in Caller, Drop(k)
    PROVE  PoolInv'
  <1> USE DEF PoolInv
  <1> DEFINE o == job[k].conn
  <1>1. /\ job[k].at = "put" /\ job' = [job EXCEPT ![k] = Idle]
        /\ leaked' = leaked \cup {o}
        /\ UNCHANGED <<pool, net, session, inbox, planned, sent, dials, panicked,
                       dirty, wrong>>
    BY DEF Drop, netVars, histVars
  <1>2. k \in Busy /\ job[k] \in BusyJob
    BY <1>1, HolderIs
  <1>3. /\ job' \in [Caller -> Job] /\ Busy' = Busy \ {k} /\ Held' = Held \ {o}
        /\ \A l \in Busy \ {k} : job'[l] = job[l]
        /\ Outstanding' \subseteq Outstanding
    BY <1>1, <1>2, Leaves
  <1>4. o \in Conn /\ o \in Held /\ o \notin ToSet(pool)
    BY <1>2, OthersHold
  <1>5. TypeOK'
    BY <1>1, <1>3, <1>4 DEF TypeOK
  <1>6. Accounted'
    BY <1>1, <1>3, FewerOutstanding
  <1>7. Exclusive'
    <2>1. \A l, m \in Busy' : l # m => job'[l].conn # job'[m].conn
      BY <1>3 DEF Exclusive
    <2> QED
      BY <1>1, <1>3, <1>4, <2>1 DEF Exclusive
  <1>8. CallerInv' /\ DoHasNetClient'
    BY <1>1, <1>2, <1>3, OthersStay
  <1>9. ConnInv' /\ OwnReplies'
    BY <1>1 DEF ConnInv, OwnReplies
  <1>10. OpenInv'
    <2>1. IsFiniteSet(Busy') /\ IsFiniteSet(leaked')
      BY <1>1, <1>3, FS_RemoveElement, FS_AddElement DEF OpenInv
    <2> QED
      BY <1>1, <1>3, <2>1 DEF OpenInv
  <1> QED
    BY <1>5, <1>6, <1>7, <1>8, <1>9, <1>10

\* Client.Close: the connections of the pool are finalized, the others stay.
LEMMA CloseStep ==
    ASSUME PoolInv, Close
    PROVE  PoolInv'
  <1> USE DEF PoolInv
  <1>1. /\ Finalize(ToSet(pool)) /\ pool' = <<>>
        /\ UNCHANGED <<job, leaked, planned, sent, dials, panicked, dirty, wrong>>
    BY DEF Close, histVars
  <1>2. /\ net' = [o \in Conn |-> IF o \in ToSet(pool) THEN "nil" ELSE net[o]]
        /\ inbox' = [o \in Conn |-> IF o \in ToSet(pool) THEN <<>> ELSE inbox[o]]
        /\ UNCHANGED session
    BY <1>1 DEF Finalize
  <1>3. /\ pool' \in Seq(Conn) /\ Len(pool') = 0 /\ ToSet(pool') = {}
        /\ IsInjective(pool')
    <2>1. <<>> \in Seq(Conn) /\ Len(<<>>) = 0 /\ DOMAIN <<>> = {}
      BY EmptySeq
    <2> QED
      BY <1>1, <2>1 DEF ToSet, IsInjective
  <1>4. Busy' = Busy /\ Held' = Held /\ Outstanding' = Outstanding
    BY <1>1 DEF Busy, Held, Outstanding
  <1>5. TypeOK'
    <2>1. <<>> \in Seq(1..MaxCmds)
      BY EmptySeq
    <2>2. /\ net' \in [Conn -> {"nil", "up", "down"}]
          /\ inbox' \in [Conn -> Seq(1..MaxCmds)]
      BY <1>2, <2>1 DEF TypeOK
    <2> QED
      BY <1>1, <1>2, <1>3, <2>2 DEF TypeOK
  <1>6. Exclusive' /\ Accounted' /\ OwnReplies'
    BY <1>1, <1>3, <1>4 DEF Exclusive, Accounted, OwnReplies
  <1>7. \A k \in Busy : /\ net'[job[k].conn] = net[job[k].conn]
                        /\ inbox'[job[k].conn] = inbox[job[k].conn]
    <2> SUFFICES ASSUME NEW k \in Busy
                 PROVE  job[k].conn \in Conn /\ job[k].conn \notin ToSet(pool)
      BY <1>2
    <2> QED
      BY OthersHold
  <1>8. CallerInv'
    <2> SUFFICES ASSUME NEW k \in Busy PROVE JobOK(k)' /\ ReadsOwn(k)'
      BY <1>4 DEF CallerInv
    <2>1. JobOK(k) /\ ReadsOwn(k)
      BY DEF CallerInv
    <2> QED
      BY <1>1, <1>2, <1>7, <2>1 DEF JobOK, ReadsOwn
  <1>9. DoHasNetClient'
    BY <1>1, <1>4, <1>7 DEF DoHasNetClient
  <1>10. ConnInv'
    BY <1>2, <1>3 DEF ConnInv
  <1>11. OpenInv'
    <2>1. \A o \in Conn : net'[o] # "nil" => o \in Held \cup leaked
      BY <1>2 DEF OpenInv
    <2> QED
      BY <1>1, <1>3, <1>4, <2>1, PoolAssumption DEF OpenInv
  <1> QED
    BY <1>5, <1>6, <1>8, <1>9, <1>10, <1>11

-----------------------------------------------------------------------------
(* The theorems                                                            *)

\* The first state of the client satisfies the inductive invariant.
LEMMA PoolInvInit == Init => PoolInv
  <1> SUFFICES ASSUME Init PROVE PoolInv
    OBVIOUS
  <1> USE DEF Init
  <1>1. /\ <<>> \in Seq(Conn) /\ <<>> \in Seq(1..MaxCmds) /\ Len(<<>>) = 0
        /\ DOMAIN <<>> = {}
    BY EmptySeq
  <1>2. TypeOK
    <2>1. Idle \in Job
      BY DEF Job
    <2>2. /\ job \in [Caller -> Job] /\ net \in [Conn -> {"nil", "up", "down"}]
          /\ session \in [Conn -> 0..dials]
          /\ inbox \in [Conn -> Seq(1..MaxCmds)]
      BY <1>1, <2>1
    <2>3. planned \in 0..MaxCmds /\ sent \in 0..planned /\ dials \in Nat
      BY PoolAssumption
    <2> QED
      BY <1>1, <2>2, <2>3 DEF TypeOK
  <1>3. Busy = {} /\ Held = {} /\ ToSet(pool) = {} /\ Outstanding = {}
    <2>1. Busy = {}
      BY DEF Busy
    <2>2. Outstanding = {}
      BY DEF Outstanding
    <2> QED
      BY <1>1, <2>1, <2>2 DEF Held, ToSet
  <1>4. IsFiniteSet({}) /\ Cardinality({}) = 0
    BY FS_EmptySet
  <1>5. Exclusive
    BY <1>1, <1>3 DEF Exclusive, IsInjective
  <1>6. Accounted
    BY <1>3, <1>4 DEF Accounted
  <1>7. CallerInv /\ ConnInv
    BY <1>3 DEF CallerInv, ConnInv
  <1>8. OpenInv
    BY <1>1, <1>3, <1>4, PoolAssumption DEF OpenInv
  <1>9. OwnReplies /\ DoHasNetClient
    BY <1>3 DEF OwnReplies, DoHasNetClient
  <1> QED
    BY <1>2, <1>5, <1>6, <1>7, <1>8, <1>9 DEF PoolInv

\* Every step of the client, of its callers and of the server keeps it.
LEMMA PoolInvStep == PoolInv /\ [Next]_vars => PoolInv'
  <1> SUFFICES ASSUME PoolInv, [Next]_vars PROVE PoolInv'
    OBVIOUS
  <1>1. CASE Close
    BY <1>1, CloseStep
  <1>2. ASSUME NEW k \in Caller, NEW mode \in Mode, NEW n \in 1..MaxBatch,
               Get(k, mode, n)
        PROVE  PoolInv'
    BY <1>2, GetStep
  <1>3. ASSUME NEW k \in Caller, Put(k) \/ Drop(k) PROVE PoolInv'
    BY <1>3, PutStep, DropStep
  <1>4. ASSUME NEW k \in Caller, Connect(k) \/ Write(k) \/ WriteFails(k)
        PROVE  PoolInv'
    BY <1>4, ConnectStep, WriteStep, WriteFailsStep
  <1>5. ASSUME NEW k \in Caller,
               Read(k) \/ ReadFails(k) \/ ReadPanics(k) \/ Push(k)
        PROVE  PoolInv'
    BY <1>5, ReadStep, ReadFailsStep, ReadPanicsStep, PushStep
  <1>6. ASSUME NEW o \in Conn, HangUp(o) PROVE PoolInv'
    BY <1>6, HangUpStep
  <1>7. CASE UNCHANGED vars
    <2>1. panicked' \in BOOLEAN
      BY <1>7 DEF vars, PoolInv, TypeOK
    <2> QED
      BY <1>7, <2>1, SameState DEF vars, netVars, histVars
  <1> QED
    BY <1>1, <1>2, <1>3, <1>4, <1>5, <1>6, <1>7 DEF Next

\* The inductive invariant holds in every reachable state.
LEMMA PoolInvariant == Spec => []PoolInv
  BY PoolInvInit, PoolInvStep, PTL DEF Spec

\* Type correctness of the pool, its callers and its connections; that no more
\* commands are sent than were planned rests on the account of those left.
THEOREM TypeCorrect == Spec => []TypeOK
  <1>1. PoolInv => TypeOK
    BY DEF PoolInv
  <1> QED
    BY <1>1, PoolInvariant, PTL

\* client.get and client.put never give a ClientConnection two users, for any
\* number of callers and any maxIdle.
THEOREM ConnectionsExclusive == Spec => []Exclusive
  <1>1. PoolInv => Exclusive
    BY DEF PoolInv
  <1> QED
    BY <1>1, PoolInvariant, PTL

\* A caller of Do or of the pipeline reads the replies to its own commands
\* unless, on the session, a fire-and-forget command was answered or a reply
\* was read in part.
THEOREM RepliesAreOwn == Spec => []OwnReplies
  <1>1. PoolInv => OwnReplies
    BY DEF PoolInv
  <1> QED
    BY <1>1, PoolInvariant, PTL

\* Do never reads from a nil netClient.
THEOREM DoNeverPanics == Spec => []DoHasNetClient
  <1>1. PoolInv => DoHasNetClient
    BY DEF PoolInv
  <1> QED
    BY <1>1, PoolInvariant, PTL

\* The image of a list is no larger than the list is long.
LEMMA SizeOfPool ==
    ASSUME NEW S, NEW s \in Seq(S)
    PROVE  IsFiniteSet(ToSet(s)) /\ Cardinality(ToSet(s)) <= Len(s)
  <1>1. Len(s) \in Nat /\ DOMAIN s = 1..Len(s) /\ s \in [1..Len(s) -> S]
    BY LenProperties
  <1>2. s \in Surjection(1..Len(s), ToSet(s))
    BY <1>1 DEF Surjection, ToSet
  <1>3. IsFiniteSet(1..Len(s)) /\ Cardinality(1..Len(s)) = Len(s)
    BY <1>1, FS_Interval
  <1> QED
    BY <1>2, <1>3, FS_Surjection

\* No more connections are held than callers are busy.
LEMMA SizeOfHeld ==
    ASSUME IsFiniteSet(Busy)
    PROVE  IsFiniteSet(Held) /\ Cardinality(Held) <= Cardinality(Busy)
  <1> DEFINE f == [k \in Busy |-> job[k].conn]
  <1>1. f \in Surjection(Busy, Held)
    BY DEF Surjection, Held
  <1> HIDE DEF f
  <1> QED
    BY <1>1, FS_Surjection

\* No sockets are open but those of at most maxIdle idle connections, one per
\* busy caller, and the ones that Client.DoAsync left behind.
THEOREM SocketsStayBounded == Spec => []SocketsBounded
  <1>1. ASSUME PoolInv PROVE SocketsBounded
    <2> USE DEF PoolInv
    <2> DEFINE open == {o \in Conn : net[o] # "nil"}
               all == ToSet(pool) \cup Held \cup leaked
    <2>1. /\ IsFiniteSet(ToSet(pool)) /\ Cardinality(ToSet(pool)) <= Len(pool)
          /\ Len(pool) \in Nat /\ Len(pool) <= MaxIdle
      BY <1>1, SizeOfPool, LenProperties DEF TypeOK, OpenInv
    <2>2. IsFiniteSet(Held) /\ Cardinality(Held) <= Cardinality(Busy)
      BY <1>1, SizeOfHeld DEF OpenInv
    <2>3. IsFiniteSet(Busy) /\ IsFiniteSet(leaked)
      BY <1>1 DEF OpenInv
    <2>4. /\ IsFiniteSet(ToSet(pool) \cup Held)
          /\ Cardinality(ToSet(pool) \cup Held)
               = Cardinality(ToSet(pool)) + Cardinality(Held)
                 - Cardinality(ToSet(pool) \cap Held)
      BY <2>1, <2>2, FS_Union
    <2>5. /\ IsFiniteSet(all)
          /\ Cardinality(all) = Cardinality(ToSet(pool) \cup Held)
               + Cardinality(leaked)
               - Cardinality((ToSet(pool) \cup Held) \cap leaked)
      BY <2>3, <2>4, FS_Union
    <2>6. /\ IsFiniteSet(ToSet(pool) \cap Held)
          /\ IsFiniteSet((ToSet(pool) \cup Held) \cap leaked)
      BY <2>1, <2>4, FS_Intersection
    <2>7. open \in SUBSET all
      BY <1>1 DEF OpenInv
    <2>8. IsFiniteSet(open) /\ Cardinality(open) <= Cardinality(all)
      BY <2>5, <2>7, FS_Subset
    <2>9. /\ Cardinality(open) \in Nat /\ Cardinality(all) \in Nat
          /\ Cardinality(ToSet(pool)) \in Nat /\ Cardinality(Held) \in Nat
          /\ Cardinality(Busy) \in Nat /\ Cardinality(leaked) \in Nat
          /\ Cardinality(ToSet(pool) \cap Held) \in Nat
          /\ Cardinality((ToSet(pool) \cup Held) \cap leaked) \in Nat
          /\ Cardinality(ToSet(pool) \cup Held) \in Nat
      BY <2>1, <2>2, <2>3, <2>4, <2>5, <2>6, <2>8, FS_CardinalityType
    <2>10. Cardinality(open) <= MaxIdle + Cardinality(Busy) + Cardinality(leaked)
      <3> HIDE DEF open, all
      <3> QED
        BY <2>1, <2>2, <2>4, <2>5, <2>8, <2>9, PoolAssumption
    <2> QED
      BY <2>10 DEF SocketsBounded
  <1> QED
    BY <1>1, PoolInvariant, PTL

=============================================================================
