----------------------------- MODULE IrcpProofs -----------------------------
(***************************************************************************)
(* Theorems about Ircp, for any files and directories, any arguments and   *)
(* any number of faults: where the two ends are in the walk, and what the  *)
(* server has of the file on its way.                                      *)
(***************************************************************************)
EXTENDS Ircp, SequenceTheorems, TLAPS

(* What the variables hold.                                                *)
Paths == Seq(Names)
Data  == Seq(Names \X Nat)
Packets == [op : Ops, name : Names \union {None}, data : Data, end : BOOLEAN, final : BOOLEAN]

Proper(v) ==
  /\ v.op = "PUT" => v.file \in Files
  /\ v.op = "DOWN" => v.file \in Dirs
  /\ v.op = "UP" => v.at # <<>>
  /\ ~v.checked => v.op = "DOWN" /\ v.at = <<>>
VisitsOf(ops) ==
  {v \in [op : ops, file : Nodes \union {None}, at : Paths, checked : BOOLEAN] : Proper(v)}
Requests == VisitsOf(Ops)
Visits   == VisitsOf({"PUT", "DOWN", "UP", "SKIP"})

Stored1 == [dir : Paths, name : Names, data : Data]
Servers ==
  {s \in [fd : Nat, cwd : Paths, dirdepth : Nat, finished : BOOLEAN,
          inbox : Seq(Stored1), dirs : SUBSET Paths,
          cmd : Ops \union {None}, name : Names \union {None},
          rsp : Codes] :
     s.fd <= Len(s.inbox) /\ s.dirdepth = Len(s.cwd)}

Opens == {f \in [file : Files, next : Nat] : f.next \in 1..(f.file.chunks + 1)}

ClientTyped ==
  /\ pc \in {"connect", "put", "disconnect", "done"}
  /\ link \in {"none", "up", "down"}
  /\ spc \in {"running", "ended"}
  /\ finished \in BOOLEAN /\ success \in BOOLEAN /\ strayed \in BOOLEAN
  /\ faults \subseteq Faults
  /\ left \in Seq(Nodes) /\ todo \in Seq(Visits)
  /\ step # None => step \in Requests
  /\ \A v \in reported : v \in Requests /\ v.op = "PUT"
LibraryTyped ==
  /\ object # None => object \in Requests
  /\ fd # None => fd \in Opens
  /\ toServer # None =>
       /\ toServer \in Packets
       /\ toServer.op = object.op
       /\ toServer.op # "PUT" =>
            toServer.final /\ ~toServer.end /\ toServer.data = <<>>
       /\ toServer.op = "DOWN" => toServer.name = object.file.name
  /\ toClient \in Codes \union {None}
  /\ toClient = "CONTINUE" => object.op = "PUT"
ServerTyped == srv \in Servers /\ srv.rsp = "SUCCESS" /\ srv.cmd \in {None, "PUT"}
Typed == ClientTyped /\ LibraryTyped /\ ServerTyped

(* Where the client is, and what is on its way.                            *)
Progress ==
  /\ pc # "put" => todo = <<>>
  /\ step # None =>
       CASE pc = "connect" -> step = Connect
         [] pc = "put" -> todo # <<>> /\ step = Head(todo)
         [] pc = "disconnect" -> step = Disconnect
         [] pc = "done" -> FALSE
  /\ pc = "disconnect" => step # None
  /\ link = "none" => pc \in {"connect", "done"} /\ step = None
Held ==
  /\ finished => object = None
  /\ toServer # None => object # None /\ toClient = None
  /\ toClient # None => object # None
  /\ link = "none" => object = None
  /\ link = "down" /\ pc # "done" => toServer = None
Stages == Progress /\ Held
Synced ==
  "timeout" \notin faults =>
    /\ object = IF step = None \/ finished THEN None ELSE step
    /\ link # "up" => toServer = None
    /\ link = "up" /\ object # None => toServer # None \/ toClient # None

(* Where the server is: where the client's walk is.                        *)
Before(w)  == IF w = <<>> THEN <<>> ELSE Head(w).at
After(v)   == IF v.op = "UP" THEN Front(v.at) ELSE v.at
Reaches(v) == IF v.op = "DOWN" THEN Append(v.at, v.file.name) ELSE After(v)
Chained(w) ==
  \A i \in 1..Len(w) : After(w[i]) = IF i < Len(w) THEN w[i + 1].at ELSE <<>>
Trusted == ~srv.finished /\ ~strayed /\ "timeout" \notin faults /\ link # "down"
Place ==
  Trusted =>
    /\ Chained(todo)
    /\ srv.cwd = IF step = None \/ toServer # None THEN Before(todo) ELSE Reaches(step)
    /\ (step # None /\ step.op \in {"DOWN", "UP"}) =>
         (toClient # None => toClient = "SUCCESS") /\ (finished => success)

(* What the server has of the file that is sent.                           *)
Clean == faults \intersect {"timeout", "read", "write"} = {}
Sent  == IF fd = None THEN object.file.chunks ELSE fd.next - 1
Chunked(name, n) == [k \in 1..n |-> <<name, k>>]
Prefix(f) == f.data = Chunked(f.name, Len(f.data))
Receiving(n) ==
  /\ srv.fd # 0
  /\ LET f == srv.inbox[srv.fd]
     IN  /\ f.name = object.file.name /\ Len(f.data) = n
         /\ strayed \/ f.dir = object.at
Denied == srv.fd = 0 /\ srv.name = None
Idle   == srv.fd = 0 /\ srv.cmd = None
Stored(v) ==
  \/ "create" \in faults /\ v.file.chunks = 0
  \/ \E i \in 1..Len(srv.inbox) :
       /\ i # srv.fd
       /\ srv.inbox[i].name = v.file.name /\ srv.inbox[i].data = Chunks(v.file)
       /\ strayed \/ srv.inbox[i].dir = v.at
Arriving ==
  /\ toServer.end <=> fd = None
  /\ toServer.final <=> fd = None
  /\ \E got \in 0..Sent :
       /\ toServer.data = SubSeq(Chunks(object.file), got + 1, Sent)
       /\ ~toServer.final => got < Sent
       /\ \/ Idle /\ got = 0 /\ toServer.name = object.file.name
          \/ srv.cmd = "PUT" /\ toServer.name = None /\ (Receiving(got) \/ Denied)
Answered ==
  IF toClient = "CONTINUE"
  THEN fd # None /\ srv.cmd = "PUT" /\ (Receiving(Sent) \/ Denied)
  ELSE Idle /\ (toClient = "SUCCESS" => Stored(object))
Whole == \A i \in 1..Len(srv.inbox) : Prefix(srv.inbox[i])
Quiet ==
  /\ link # "down" /\ object = None => Idle
  /\ (toServer # None \/ toClient # None) /\ object.op # "PUT" => Idle
OfOneFile ==
  /\ object # None /\ object.op = "PUT" /\ fd # None => fd.file = object.file
  /\ toServer # None /\ object.op = "PUT" => Arriving
  /\ toClient # None /\ object.op = "PUT" => Answered
Result  == finished /\ success /\ step # None /\ step.op = "PUT" => Stored(step)
Reports == \A v \in reported : Stored(v)
Transfer == Clean => Whole /\ Quiet /\ OfOneFile /\ Result /\ Reports
IInv == Typed /\ Stages /\ Synced /\ Place /\ Transfer
-----------------------------------------------------------------------------
(* Sequences, and the chunks of a file.                                     *)

LEMMA ChunkSeq ==
  ASSUME NEW name \in Names, NEW n \in Nat
  PROVE  /\ Chunked(name, n) \in Data
         /\ Len(Chunked(name, n)) = n
         /\ \A k \in 1..n : Chunked(name, n)[k] = <<name, k>>
BY DEF Chunked, Data

LEMMA ChunkJoin ==
  ASSUME NEW name \in Names, NEW c \in Nat, NEW n \in 0..c, NEW m \in n..c
  PROVE  /\ SubSeq(Chunked(name, c), n + 1, m) \in Data
         /\ Len(SubSeq(Chunked(name, c), n + 1, m)) = m - n
         /\ Chunked(name, n) \o SubSeq(Chunked(name, c), n + 1, m) = Chunked(name, m)
<1> DEFINE s == Chunked(name, c)
           t == SubSeq(s, n + 1, m)
<1>1. s \in Data /\ Len(s) = c /\ \A k \in 1..c : s[k] = <<name, k>>
  BY ChunkSeq
<1>2. ASSUME NEW i \in (n + 1)..m
      PROVE  s[i] \in Names \X Nat
  <2>1. i \in 1..c /\ i \in Nat
    OBVIOUS
  <2>2. s[i] = <<name, i>>
    BY <1>1, <2>1
  <2>3. <<name, i>> \in Names \X Nat
    BY <2>1
  <2>4. QED
    BY <2>2, <2>3
<1> HIDE DEF s
<1>3. /\ t \in Data
      /\ Len(t) = m - n
      /\ \A i \in 1..(m - n) : t[i] = s[n + i]
  <2>1. /\ t \in Seq(Names \X Nat)
        /\ Len(t) = IF n + 1 <= m THEN m - (n + 1) + 1 ELSE 0
        /\ \A i \in 1 .. (m - (n + 1) + 1) : t[i] = s[n + 1 + i - 1]
    BY <1>2, SubSeqProperties
  <2>2. QED
    BY <2>1 DEF Data
<1>4. Chunked(name, n) \o t = Chunked(name, m)
  <2>1. Chunked(name, n) \in Data /\ Len(Chunked(name, n)) = n
        /\ \A k \in 1..n : Chunked(name, n)[k] = <<name, k>>
    BY ChunkSeq
  <2>2. Chunked(name, m) \in Data /\ Len(Chunked(name, m)) = m
        /\ \A k \in 1..m : Chunked(name, m)[k] = <<name, k>>
    BY ChunkSeq
  <2>3. /\ Chunked(name, n) \o t \in Data
        /\ Len(Chunked(name, n) \o t) = n + (m - n)
        /\ \A i \in 1..m : (Chunked(name, n) \o t)[i]
             = IF i <= n THEN Chunked(name, n)[i] ELSE t[i - n]
    <3> DEFINE a == Chunked(name, n)
    <3>1. a \in Seq(Names \X Nat) /\ t \in Seq(Names \X Nat) /\ Len(a) = n /\ Len(t) = m - n
      BY <2>1, <1>3 DEF Data
    <3> HIDE DEF a, t
    <3>2. /\ a \o t \in Seq(Names \X Nat)
          /\ Len(a \o t) = Len(a) + Len(t)
          /\ \A i \in 1 .. Len(a) + Len(t) : (a \o t)[i] =
                     IF i <= Len(a) THEN a[i] ELSE t[i - Len(a)]
      BY <3>1, ConcatProperties
    <3>3. n + (m - n) = m
      OBVIOUS
    <3>4. QED
      BY <3>1, <3>2, <3>3 DEF Data, a
  <2>4. ASSUME NEW i \in 1..m
        PROVE  (Chunked(name, n) \o t)[i] = Chunked(name, m)[i]
    <3>1. CASE i <= n
      <4>1. i \in 1..n
        BY <3>1
      <4>2. (Chunked(name, n) \o t)[i] = Chunked(name, n)[i]
        BY <3>1, <2>3
      <4>3. QED
        BY <4>1, <4>2, <2>1, <2>2
    <3>2. CASE i > n
      <4>1. i - n \in 1..(m - n) /\ n + (i - n) = i /\ i \in 1..c /\ ~(i <= n)
        BY <3>2
      <4>2. t[i - n] = s[n + (i - n)]
        BY <4>1, <1>3
      <4>3. (Chunked(name, n) \o t)[i] = t[i - n]
        BY <4>1, <2>3
      <4>4. QED
        BY <4>1, <4>2, <4>3, <2>2, <1>1
    <3>3. i <= n \/ i > n
      OBVIOUS
    <3>4. QED
      BY <3>1, <3>2, <3>3
  <2>5. n + (m - n) = m
    OBVIOUS
  <2> DEFINE a == Chunked(name, n) \o t
             b == Chunked(name, m)
  <2>6. a \in Seq(Names \X Nat) /\ b \in Seq(Names \X Nat)
        /\ Len(a) = m /\ Len(b) = m /\ \A i \in 1..m : a[i] = b[i]
    BY <2>2, <2>3, <2>4, <2>5 DEF Data
  <2> HIDE DEF a, b
  <2>7. a = b
    BY <2>6, SeqEqual
  <2>8. QED
    BY <2>7 DEF a, b
<1>5. QED
  BY <1>3, <1>4 DEF s

LEMMA ChunksOf ==
  ASSUME NEW f \in Files
  PROVE  f.name \in Names /\ f.chunks \in Nat /\ Chunks(f) = Chunked(f.name, f.chunks)
BY NodesAssumption DEF Names, Chunks, Chunked

(* From n on there is nothing left of n chunks.                             *)
Part(name, c, n, m) == SubSeq(Chunked(name, c), n + 1, m)
LEMMA NoChunks ==
  ASSUME NEW name \in Names, NEW c \in Nat, NEW n \in 0..c, NEW m \in n..c
  PROVE  Part(name, c, n, m) = <<>> <=> m = n
<1> DEFINE u == Part(name, c, n, m)
<1>1. u \in Seq(Names \X Nat) /\ Len(u) = m - n
  BY ChunkJoin DEF Data, Part
<1> HIDE DEF u
<1>2. u = <<>> <=> m - n = 0
  BY <1>1, EmptySeq
<1>3. m - n = 0 <=> m = n
  OBVIOUS
<1>4. QED
  BY <1>2, <1>3 DEF u

LEMMA FrontOfPath ==
  ASSUME NEW p \in Paths
  PROVE  /\ p # <<>> => Front(p) \in Paths /\ Len(Front(p)) = Len(p) - 1
         /\ \A n \in Names : Append(p, n) \in Paths /\ Append(p, n) # <<>>
                             /\ Len(Append(p, n)) = Len(p) + 1 /\ Front(Append(p, n)) = p
<1>1. ASSUME p # <<>>
      PROVE  Front(p) \in Paths /\ Len(Front(p)) = Len(p) - 1
  <2>1. p \in Seq(Names) /\ Len(p) \in Nat \ {0}
    BY <1>1, EmptySeq DEF Paths
  <2>2. \A i \in 1..(Len(p) - 1) : p[i] \in Names
    BY <2>1
  <2>3. /\ SubSeq(p, 1, Len(p) - 1) \in Seq(Names)
        /\ Len(SubSeq(p, 1, Len(p) - 1))
             = IF 1 <= Len(p) - 1 THEN Len(p) - 1 - 1 + 1 ELSE 0
    BY <2>1, <2>2, SubSeqProperties
  <2>4. (IF 1 <= Len(p) - 1 THEN Len(p) - 1 - 1 + 1 ELSE 0) = Len(p) - 1
    <3>1. \A l \in Nat \ {0} : (IF 1 <= l - 1 THEN l - 1 - 1 + 1 ELSE 0) = l - 1
      OBVIOUS
    <3>2. QED
      BY <2>1, <3>1
  <2>5. Front(p) = SubSeq(p, 1, Len(p) - 1)
    BY DEF Front
  <2>6. QED
    BY <2>3, <2>4, <2>5 DEF Paths
<1>2. ASSUME NEW n \in Names
      PROVE  Append(p, n) \in Paths /\ Append(p, n) # <<>>
             /\ Len(Append(p, n)) = Len(p) + 1 /\ Front(Append(p, n)) = p
  <2>1. Append(p, n) \in Paths /\ Append(p, n) # <<>> /\ Len(Append(p, n)) = Len(p) + 1
    BY AppendProperties DEF Paths
  <2>2. Front(Append(p, n)) = p
    BY DEF Front, Paths
  <2>3. QED
    BY <2>1, <2>2
<1>3. QED
  BY <1>1, <1>2
-----------------------------------------------------------------------------
(* The walk.                                                                *)

LEMMA VisitFields ==
  ASSUME NEW v \in Requests \union Visits
  PROVE  /\ v.op \in Ops \union {"SKIP"} /\ v.at \in Paths /\ v.checked \in BOOLEAN
         /\ v.file \in Nodes \union {None}
         /\ Proper(v) /\ v # None
         /\ v.op \in Ops => v \in Requests
<1>1. v \in [op : Ops \union {"SKIP"}, file : Nodes \union {None}, at : Paths,
             checked : BOOLEAN] /\ Proper(v)
  BY DEF Requests, Visits, VisitsOf, Ops
<1>2. v # None
  BY <1>1, NoneAssumption DEF Paths
<1>3. ASSUME v.op \in Ops
      PROVE  v \in Requests
  <2>1. v = [op |-> v.op, file |-> v.file, at |-> v.at, checked |-> v.checked]
    BY <1>1
  <2>2. [op |-> v.op, file |-> v.file, at |-> v.at, checked |-> v.checked]
          \in [op : Ops, file : Nodes \union {None}, at : Paths, checked : BOOLEAN]
    BY <1>1, <1>3
  <2>3. v \in [op : Ops, file : Nodes \union {None}, at : Paths, checked : BOOLEAN]
    BY <2>1, <2>2
  <2>4. QED
    BY <2>3, <1>1 DEF Requests, VisitsOf
<1>4. QED
  BY <1>1, <1>2, <1>3

LEMMA PathEmpty == <<>> \in Paths
BY EmptySeq DEF Paths

LEMMA VisitTypes ==
  /\ Connect \in Requests /\ Disconnect \in Requests
  /\ \A at \in Paths, e \in Nodes :
       Entry(e, at) \in Visits /\ Entry(e, at).at = at /\ After(Entry(e, at)) = at
  /\ \A at \in Paths : at # <<>> => Up(at) \in Visits
<1>1. Connect \in Requests /\ Disconnect \in Requests
  BY PathEmpty DEF Connect, Disconnect, Visit, Requests, VisitsOf, Ops, Proper
<1>2. ASSUME NEW at \in Paths, NEW e \in Nodes
      PROVE  Entry(e, at) \in Visits /\ Entry(e, at).at = at /\ After(Entry(e, at)) = at
  <2>1. CASE e.kind = "file"
    <3>1. Entry(e, at) = [op |-> "PUT", file |-> e, at |-> at, checked |-> TRUE]
      BY <2>1 DEF Entry, Put, Visit
    <3>2. e \in Files
      BY <2>1 DEF Files
    <3>3. QED
      BY <3>1, <3>2 DEF Visits, VisitsOf, Proper, After
  <2>2. CASE e.kind = "dir"
    <3>1. Entry(e, at) = [op |-> "DOWN", file |-> e, at |-> at, checked |-> TRUE]
      BY <2>2 DEF Entry, Down, Visit
    <3>2. e \in Dirs
      BY <2>2 DEF Dirs
    <3>3. QED
      BY <3>1, <3>2 DEF Visits, VisitsOf, Proper, After
  <2>3. CASE e.kind # "file" /\ e.kind # "dir"
    <3>1. Entry(e, at) = [op |-> "SKIP", file |-> e, at |-> at, checked |-> TRUE]
      BY <2>3 DEF Entry, Visit
    <3>2. QED
      BY <3>1 DEF Visits, VisitsOf, Proper, After
  <2>4. QED
    BY <2>1, <2>2, <2>3
<1>3. ASSUME NEW at \in Paths, at # <<>>
      PROVE  Up(at) \in Visits
  BY <1>3 DEF Up, Visit, Visits, VisitsOf, Proper
<1>4. QED
  BY <1>1, <1>2, <1>3

(* The visits in a directory that is entered, one after the other.          *)
LEMMA DirVisits ==
  ASSUME NEW dir \in Dirs, NEW at \in Paths, at # <<>>
  PROVE  /\ visit_dir(dir, at) \in Seq(Visits)
         /\ Len(visit_dir(dir, at)) = Len(dir.entries) + 1 /\ Len(dir.entries) \in Nat
         /\ \A i \in 1..(Len(dir.entries) + 1) : visit_dir(dir, at)[i].at = at
         /\ \A i \in 1..Len(dir.entries) : After(visit_dir(dir, at)[i]) = at
         /\ After(visit_dir(dir, at)[Len(dir.entries) + 1]) = Front(at)
<1> DEFINE L == Len(dir.entries)
           E == [k \in 1..L |-> Entry(dir.entries[k], at)]
<1>1. dir.entries \in Seq(Nodes) /\ L \in Nat
  BY NodesAssumption DEF Dirs
<1>2. \A k \in 1..L : dir.entries[k] \in Nodes
  BY <1>1
<1>3. \A k \in 1..L : E[k] \in Visits /\ E[k].at = at /\ After(E[k]) = at
  BY <1>2, VisitTypes
<1>4. E \in Seq(Visits) /\ Len(E) = L
  <2>1. E \in [1..L -> Visits]
    BY <1>3
  <2> HIDE DEF E
  <2>2. QED
    BY <1>1, <2>1
<1>5. Up(at) \in Visits /\ Up(at).at = at /\ After(Up(at)) = Front(at)
  BY VisitTypes DEF Up, Visit, After
<1>6. visit_dir(dir, at) = Append(E, Up(at))
  BY DEF visit_dir
<1> HIDE DEF E, L
<1>7. /\ Append(E, Up(at)) \in Seq(Visits)
      /\ Len(Append(E, Up(at))) = L + 1
      /\ \A i \in 1..L : Append(E, Up(at))[i] = E[i]
      /\ Append(E, Up(at))[L + 1] = Up(at)
  BY <1>4, <1>5, AppendProperties
<1>8. \A i \in 1..(L + 1) : i \in 1..L \/ i = L + 1
  BY <1>1
<1>9. \A i \in 1..(L + 1) : Append(E, Up(at))[i].at = at
  BY <1>3, <1>5, <1>7, <1>8
<1>10. QED
  BY <1>1, <1>3, <1>5, <1>6, <1>7, <1>9 DEF L

LEMMA FollowsWalk ==
  ASSUME NEW v \in Requests \union Visits
  PROVE  /\ Follows(v) \in Seq(Visits)
         /\ v.op # "DOWN" => Follows(v) = <<>>
         /\ v.op = "DOWN" =>
              /\ Len(Follows(v)) \in Nat \ {0}
              /\ Follows(v)[1].at = Reaches(v)
              /\ \A i \in 1..Len(Follows(v)) :
                   After(Follows(v)[i])
                     = IF i < Len(Follows(v)) THEN Follows(v)[i + 1].at ELSE v.at
<1>1. CASE v.op # "DOWN"
  BY <1>1, EmptySeq DEF Follows
<1>2. CASE v.op = "DOWN"
  <2> DEFINE at == Append(v.at, v.file.name)
             F == visit_dir(v.file, at)
             L == Len(v.file.entries)
  <2>1. v.file \in Dirs /\ v.at \in Paths
    BY <1>2, VisitFields DEF Proper
  <2>2. v.file.name \in Names
    BY <2>1 DEF Names
  <2>3. at \in Paths /\ at # <<>> /\ Front(at) = v.at
    BY <2>1, <2>2, FrontOfPath
  <2>4. /\ F \in Seq(Visits) /\ Len(F) = L + 1 /\ L \in Nat
        /\ \A i \in 1..(L + 1) : F[i].at = at
        /\ \A i \in 1..L : After(F[i]) = at
        /\ After(F[L + 1]) = v.at
    <3> HIDE DEF at
    <3>1. QED
      BY <2>1, <2>3, DirVisits
  <2>5. Follows(v) = F /\ Reaches(v) = at
    BY <1>2 DEF Follows, Reaches
  <2> HIDE DEF F, at, L
  <2>6. Len(F) \in Nat \ {0} /\ F[1].at = at
    BY <2>4
  <2>7. ASSUME NEW i \in 1..Len(F)
        PROVE  After(F[i]) = IF i < Len(F) THEN F[i + 1].at ELSE v.at
    <3>1. CASE i < Len(F)
      <4>1. i \in 1..L /\ (i + 1) \in 1..(L + 1)
        BY <2>4, <3>1
      <4>2. QED
        BY <3>1, <4>1, <2>4
    <3>2. CASE ~(i < Len(F))
      <4>1. i = L + 1
        BY <2>4, <3>2
      <4>2. QED
        BY <3>2, <4>1, <2>4
    <3>3. QED
      BY <3>1, <3>2
  <2>8. QED
    BY <1>2, <2>4, <2>5, <2>6, <2>7
<1>3. QED
  BY <1>1, <1>2

(* After a visit that went well the walk goes on where it led.              *)
LEMMA WalkGoesOn ==
  ASSUME NEW w \in Seq(Visits), w # <<>>
  PROVE  /\ Follows(Head(w)) \o Tail(w) \in Seq(Visits)
         /\ Chained(w) =>
              /\ Chained(Follows(Head(w)) \o Tail(w))
              /\ Before(Follows(Head(w)) \o Tail(w)) = Reaches(Head(w))
<1> DEFINE v == Head(w)
           F == Follows(v)
           T == Tail(w)
           n == F \o T
<1>1. v \in Visits /\ T \in Seq(Visits) /\ Len(T) = Len(w) - 1 /\ Len(w) \in Nat \ {0}
      /\ (\A i \in 1..Len(T) : T[i] = w[i + 1]) /\ v = w[1]
  BY HeadTailProperties, EmptySeq
<1>2. /\ F \in Seq(Visits)
      /\ v.op # "DOWN" => F = <<>>
      /\ v.op = "DOWN" =>
           /\ Len(F) \in Nat \ {0}
           /\ F[1].at = Reaches(v)
           /\ \A i \in 1..Len(F) :
                After(F[i]) = IF i < Len(F) THEN F[i + 1].at ELSE v.at
  BY <1>1, FollowsWalk
<1> HIDE DEF F, v, T
<1>3. /\ n \in Seq(Visits) /\ Len(n) = Len(F) + Len(T)
      /\ \A i \in 1..(Len(F) + Len(T)) :
           n[i] = IF i <= Len(F) THEN F[i] ELSE T[i - Len(F)]
  <2>1. F \in Seq(Visits) /\ T \in Seq(Visits)
    BY <1>1, <1>2
  <2>2. QED
    BY <2>1, ConcatProperties
<1>4. Len(F) \in Nat /\ Len(T) \in Nat
  BY <1>1, <1>2, LenProperties
<1> HIDE DEF n
<1>5. ASSUME Chained(w)
      PROVE  Chained(n) /\ Before(n) = Reaches(v)
  <2>1. After(v) = IF Len(T) > 0 THEN T[1].at ELSE <<>>
    <3>1. After(w[1]) = IF 1 < Len(w) THEN w[1 + 1].at ELSE <<>>
      BY <1>1, <1>5 DEF Chained
    <3>2. CASE Len(T) > 0
      <4>1. 1 < Len(w) /\ 1 \in 1..Len(T)
        BY <1>1, <1>4, <3>2
      <4>2. QED
        BY <3>1, <3>2, <4>1, <1>1
    <3>3. CASE ~(Len(T) > 0)
      <4>1. ~(1 < Len(w))
        BY <1>1, <1>4, <3>3
      <4>2. QED
        BY <3>1, <3>3, <4>1, <1>1
    <3>4. QED
      BY <3>2, <3>3
  <2>2. \A i \in 1..Len(T) : After(T[i]) = IF i < Len(T) THEN T[i + 1].at ELSE <<>>
    <3>1. TAKE i \in 1..Len(T)
    <3>2. (i + 1) \in 1..Len(w) /\ (i < Len(T) <=> i + 1 < Len(w))
          /\ (i < Len(T) => i + 1 \in 1..Len(T))
      BY <1>1, <1>4
    <3>3. After(w[i + 1]) = IF i + 1 < Len(w) THEN w[(i + 1) + 1].at ELSE <<>>
      BY <3>2, <1>5 DEF Chained
    <3>4. QED
      BY <3>2, <3>3, <1>1
  <2>3. CASE v.op # "DOWN"
    <3>1. F = <<>> /\ Len(F) = 0
      BY <2>3, <1>2, EmptySeq
    <3>2. n = T
      BY <3>1, <1>1, ConcatEmptySeq DEF n
    <3>3. Chained(n)
      BY <2>2, <3>2 DEF Chained
    <3>4. Before(n) = After(v)
      <4>1. CASE T = <<>>
        <5>1. Len(T) = 0
          BY <4>1, EmptySeq
        <5>2. QED
          BY <4>1, <5>1, <2>1, <3>2 DEF Before
      <4>2. CASE T # <<>>
        <5>1. Len(T) > 0 /\ Head(T) = T[1]
          BY <4>2, <1>1, EmptySeq
        <5>2. QED
          BY <4>2, <5>1, <2>1, <3>2 DEF Before
      <4>3. QED
        BY <4>1, <4>2
    <3>5. QED
      BY <2>3, <3>3, <3>4 DEF Reaches
  <2>4. CASE v.op = "DOWN"
    <3>0. After(v) = v.at
      BY <2>4 DEF After
    <3>1. Len(F) > 0 /\ n # <<>> /\ n[1] = F[1]
      <4>1. Len(F) > 0 /\ Len(n) > 0 /\ 1 \in 1..(Len(F) + Len(T)) /\ 1 <= Len(F)
        BY <2>4, <1>2, <1>3, <1>4
      <4>2. n # <<>>
        BY <4>1, <1>3, EmptySeq
      <4>3. QED
        BY <4>1, <4>2, <1>3
    <3>2. Before(n) = Reaches(v)
      <4>1. Head(n) = n[1]
        BY <3>1, <1>3
      <4>2. QED
        BY <4>1, <3>1, <1>2, <2>4 DEF Before
    <3>3. ASSUME NEW i \in 1..Len(n)
          PROVE  After(n[i]) = IF i < Len(n) THEN n[i + 1].at ELSE <<>>
      <4>1. CASE i < Len(F)
        <5>1. i \in 1..Len(F) /\ i \in 1..(Len(F) + Len(T)) /\ i <= Len(F) /\ i < Len(n)
              /\ (i + 1) \in 1..(Len(F) + Len(T)) /\ i + 1 <= Len(F)
          BY <4>1, <1>3, <1>4
        <5>2. n[i] = F[i] /\ n[i + 1] = F[i + 1]
          BY <5>1, <1>3
        <5>3. QED
          BY <4>1, <5>1, <5>2, <1>2, <2>4
      <4>2. CASE i = Len(F) /\ Len(T) > 0
        <5>1. i \in 1..Len(F) /\ i \in 1..(Len(F) + Len(T)) /\ i <= Len(F) /\ i < Len(n)
              /\ (i + 1) \in 1..(Len(F) + Len(T)) /\ ~(i + 1 <= Len(F))
              /\ (i + 1) - Len(F) = 1 /\ ~(i < Len(F))
          BY <4>2, <1>3, <1>4
        <5>2. n[i] = F[i] /\ n[i + 1] = T[1]
          BY <5>1, <1>3
        <5>3. After(F[i]) = v.at
          BY <5>1, <1>2, <2>4
        <5>4. QED
          BY <4>2, <5>1, <5>2, <5>3, <3>0, <2>1
      <4>3. CASE i = Len(F) /\ ~(Len(T) > 0)
        <5>1. i \in 1..Len(F) /\ i \in 1..(Len(F) + Len(T)) /\ i <= Len(F)
              /\ ~(i < Len(n)) /\ ~(i < Len(F))
          BY <4>3, <1>3, <1>4
        <5>2. n[i] = F[i]
          BY <5>1, <1>3
        <5>3. After(F[i]) = v.at
          BY <5>1, <1>2, <2>4
        <5>4. QED
          BY <4>3, <5>1, <5>2, <5>3, <3>0, <2>1
      <4>4. CASE i > Len(F)
        <5>1. (i - Len(F)) \in 1..Len(T) /\ i \in 1..(Len(F) + Len(T)) /\ ~(i <= Len(F))
              /\ (i < Len(n) <=> i - Len(F) < Len(T))
              /\ (i < Len(n) => i + 1 \in 1..(Len(F) + Len(T)))
              /\ ~(i + 1 <= Len(F)) /\ (i + 1) - Len(F) = (i - Len(F)) + 1
          BY <4>4, <1>3, <1>4
        <5>2. n[i] = T[i - Len(F)]
          BY <5>1, <1>3
        <5>3. i < Len(n) => n[i + 1] = T[(i - Len(F)) + 1]
          BY <5>1, <1>3
        <5>4. QED
          BY <5>1, <5>2, <5>3, <2>2
      <4>5. i < Len(F) \/ i = Len(F) \/ i > Len(F)
        BY <1>3, <1>4
      <4>6. QED
        BY <4>1, <4>2, <4>3, <4>4, <4>5
    <3>4. QED
      BY <3>2, <3>3 DEF Chained
  <2>5. QED
    BY <2>3, <2>4
<1>6. QED
  BY <1>3, <1>5 DEF n, F, T, v
-----------------------------------------------------------------------------
(* The server's calls.                                                      *)

Same(s, t) ==
  t.cwd = s.cwd /\ t.dirdepth = s.dirdepth /\ t.finished = s.finished /\ t.cmd = s.cmd
Kept(s, t) ==
  /\ Len(t.inbox) >= Len(s.inbox)
  /\ \A i \in 1..Len(s.inbox) : i # s.fd => i # t.fd /\ t.inbox[i] = s.inbox[i]

LEMMA ServerFields ==
  ASSUME NEW s \in Servers
  PROVE  /\ s \in [fd : Nat, cwd : Paths, dirdepth : Nat, finished : BOOLEAN,
                   inbox : Seq(Stored1), dirs : SUBSET Paths,
                   cmd : Ops \union {None}, name : Names \union {None},
                   rsp : Codes]
         /\ s.fd \in Nat /\ s.cwd \in Paths /\ s.dirdepth \in Nat /\ s.finished \in BOOLEAN
         /\ s.inbox \in Seq(Stored1) /\ s.cmd \in Ops \union {None}
         /\ s.name \in Names \union {None} /\ s.rsp \in Codes
         /\ s.fd <= Len(s.inbox) /\ s.dirdepth = Len(s.cwd) /\ Len(s.inbox) \in Nat
BY DEF Servers

LEMMA NewFile ==
  ASSUME NEW s \in Servers, s.fd = 0, NEW creates \in BOOLEAN
  PROVE  LET N == new_file(s, creates)
         IN  /\ N \in Servers /\ Same(s, N)
             /\ N.name = None
             /\ N.rsp = IF s.name = None THEN "BAD_REQUEST" ELSE s.rsp
             /\ s.name # None /\ creates =>
                  /\ N.fd = Len(s.inbox) + 1
                  /\ N.inbox = Append(s.inbox, [dir |-> s.cwd, name |-> s.name, data |-> <<>>])
             /\ ~(s.name # None /\ creates) => N.fd = 0 /\ N.inbox = s.inbox
<1> DEFINE N == new_file(s, creates)
           e == [dir |-> s.cwd, name |-> s.name, data |-> <<>>]
<1>0. /\ s \in [fd : Nat, cwd : Paths, dirdepth : Nat, finished : BOOLEAN,
                inbox : Seq(Stored1), dirs : SUBSET Paths,
                cmd : Ops \union {None}, name : Names \union {None},
                rsp : Codes]
      /\ s.fd <= Len(s.inbox) /\ s.dirdepth = Len(s.cwd) /\ Len(s.inbox) \in Nat
  BY ServerFields
<1>1. CASE s.name = None
  <2>1. N = [s EXCEPT !.rsp = "BAD_REQUEST"]
    BY <1>1 DEF new_file
  <2>2. QED
    BY <1>0, <1>1, <2>1 DEF Servers, Same, Codes
<1>2. CASE s.name # None /\ ~creates
  <2>1. N = [s EXCEPT !.name = None]
    BY <1>2 DEF new_file
  <2>2. QED
    BY <1>0, <1>2, <2>1 DEF Servers, Same
<1>3. CASE s.name # None /\ creates
  <2>1. e \in Stored1
    <3>1. <<>> \in Data
      BY EmptySeq DEF Data
    <3>2. QED
      BY <1>0, <1>3, <3>1 DEF Stored1
  <2>2. N = [s EXCEPT !.fd = Len(s.inbox) + 1, !.inbox = Append(s.inbox, e), !.name = None]
    BY <1>0, <1>3 DEF new_file, ircp_open_safe
  <2> HIDE DEF e
  <2> DEFINE b == Append(s.inbox, e)
  <2>3. b \in Seq(Stored1) /\ Len(b) = Len(s.inbox) + 1
    BY <1>0, <2>1, AppendProperties
  <2> HIDE DEF b
  <2>4. /\ N.fd = Len(s.inbox) + 1 /\ N.inbox = b /\ N.name = None /\ N.rsp = s.rsp
        /\ Same(s, N)
    BY <1>0, <2>2 DEF Same, b
  <2>5. N = [s EXCEPT !.fd = Len(s.inbox) + 1, !.inbox = b, !.name = None]
    BY <2>2 DEF b
  <2>6. N \in Servers
    <3>1. Len(s.inbox) + 1 \in Nat /\ Len(s.inbox) + 1 <= Len(b)
      BY <1>0, <2>3
    <3>2. N \in [fd : Nat, cwd : Paths, dirdepth : Nat, finished : BOOLEAN,
                inbox : Seq(Stored1), dirs : SUBSET Paths, cmd : Ops \union {None},
                name : Names \union {None}, rsp : Codes]
      BY <1>0, <2>3, <2>5, <3>1
    <3>3. N.dirdepth = Len(N.cwd) /\ N.fd <= Len(N.inbox)
      BY <1>0, <2>4, <3>1 DEF Same
    <3>4. QED
      BY <3>2, <3>3 DEF Servers
  <2>7. QED
    BY <1>3, <2>4, <2>6 DEF b, e
<1>4. QED
  BY <1>1, <1>2, <1>3

(* What ircp_srv_receive does with a file that is open.                     *)
Taken(t, data, writes) ==
  IF t.fd = 0 THEN t
  ELSE IF data = <<>> THEN [t EXCEPT !.fd = 0]
  ELSE IF writes THEN [t EXCEPT !.inbox[t.fd].data = @ \o data]
  ELSE t
Opened(s, creates) == IF s.fd = 0 THEN new_file(s, creates) ELSE s

LEMMA ReceiveIs ==
  \A s, data, creates, writes :
    ircp_srv_receive(s, data, creates, writes) = Taken(Opened(s, creates), data, writes)
BY DEF ircp_srv_receive, Taken, Opened

LEMMA TakenFields ==
  ASSUME NEW t \in Servers, NEW data \in Data, NEW writes \in BOOLEAN
  PROVE  LET R == Taken(t, data, writes)
         IN  /\ R \in Servers /\ Same(t, R)
             /\ R.name = t.name /\ R.rsp = t.rsp
             /\ R.fd = IF data = <<>> THEN 0 ELSE t.fd
             /\ Len(R.inbox) = Len(t.inbox)
             /\ \A i \in 1..Len(t.inbox) :
                  /\ i # t.fd => R.inbox[i] = t.inbox[i]
                  /\ R.inbox[i].name = t.inbox[i].name /\ R.inbox[i].dir = t.inbox[i].dir
                  /\ i = t.fd /\ writes = TRUE => R.inbox[i].data = t.inbox[i].data \o data
<1> DEFINE R == Taken(t, data, writes)
<1>0. /\ t \in [fd : Nat, cwd : Paths, dirdepth : Nat, finished : BOOLEAN,
                inbox : Seq(Stored1), dirs : SUBSET Paths,
                cmd : Ops \union {None}, name : Names \union {None},
                rsp : Codes]
      /\ t.fd <= Len(t.inbox) /\ t.dirdepth = Len(t.cwd) /\ Len(t.inbox) \in Nat
  BY ServerFields
<1>1. CASE t.fd = 0
  <2>1. R = t
    BY <1>1 DEF Taken
  <2>2. QED
    BY <1>0, <1>1, <2>1 DEF Servers, Same
<1>2. CASE t.fd # 0 /\ data = <<>>
  <2>1. R = [t EXCEPT !.fd = 0]
    BY <1>2 DEF Taken
  <2>2. /\ R \in Servers /\ Same(t, R) /\ R.name = t.name /\ R.rsp = t.rsp /\ R.fd = 0
        /\ R.inbox = t.inbox
    BY SMTT(30), <1>0, <2>1 DEF Servers, Same
  <2>3. \A i \in 1..Len(t.inbox) : t.inbox[i].data \o <<>> = t.inbox[i].data
    <3>1. \A i \in 1..Len(t.inbox) : t.inbox[i].data \in Seq(Names \X Nat)
      <4>1. \A i \in 1..Len(t.inbox) : t.inbox[i] \in Stored1
        BY <1>0
      <4>2. QED
        BY <4>1 DEF Stored1, Data
    <3>2. QED
      BY <3>1, ConcatEmptySeq
  <2>4. QED
    BY <1>2, <2>2, <2>3
<1>3. CASE t.fd # 0 /\ data # <<>> /\ ~writes
  <2>1. R = t
    BY <1>3 DEF Taken
  <2>2. QED
    BY <1>0, <1>3, <2>1 DEF Servers, Same
<1>4. CASE t.fd # 0 /\ data # <<>> /\ writes
  <2> DEFINE f == t.inbox[t.fd]
             g == [f EXCEPT !.data = f.data \o data]
             b == [t.inbox EXCEPT ![t.fd] = g]
  <2>1. t.fd \in 1..Len(t.inbox) /\ f \in Stored1
    BY <1>0, <1>4
  <2>2. f.data \o data \in Data
    <3>1. f.data \in Seq(Names \X Nat) /\ data \in Seq(Names \X Nat)
      BY <2>1 DEF Stored1, Data
    <3> HIDE DEF f
    <3>2. QED
      BY <3>1, ConcatProperties DEF Data
  <2>3. g \in Stored1 /\ g.name = f.name /\ g.dir = f.dir /\ g.data = f.data \o data
    <3> HIDE DEF f
    <3>1. QED
      BY <2>1, <2>2 DEF Stored1
  <2>4. R = [t EXCEPT !.inbox = b]
    BY <1>0, <1>4 DEF Taken
  <2> HIDE DEF g
  <2>5. b \in Seq(Stored1) /\ Len(b) = Len(t.inbox)
        /\ \A i \in 1..Len(t.inbox) : b[i] = IF i = t.fd THEN g ELSE t.inbox[i]
    BY <1>0, <2>1, <2>3, ExceptSeq
  <2> HIDE DEF b
  <2>6. R \in Servers /\ R.inbox = b /\ R.fd = t.fd /\ Same(t, R) /\ R.name = t.name
        /\ R.rsp = t.rsp
    BY <1>0, <2>4, <2>5 DEF Servers, Same
  <2>7. QED
    BY <1>4, <2>3, <2>5, <2>6
<1>5. QED
  BY <1>1, <1>2, <1>3, <1>4

LEMMA TakenEntry ==
  ASSUME NEW t \in Servers, NEW data \in Data, NEW writes \in BOOLEAN,
         NEW i \in 1..Len(t.inbox)
  PROVE  LET f == Taken(t, data, writes).inbox[i]
         IN  /\ i # t.fd => f = t.inbox[i]
             /\ f.name = t.inbox[i].name /\ f.dir = t.inbox[i].dir
             /\ i = t.fd /\ writes = TRUE => f.data = t.inbox[i].data \o data
BY TakenFields

LEMMA KeptTwice ==
  ASSUME NEW s \in Servers, NEW t \in Servers, NEW u \in Servers,
         Same(s, t), Same(t, u), Kept(s, t), Kept(t, u)
  PROVE  Same(s, u) /\ Kept(s, u)
<1>1. Len(s.inbox) \in Nat /\ Len(t.inbox) \in Nat /\ Len(u.inbox) \in Nat
  BY ServerFields
<1>2. Len(u.inbox) >= Len(s.inbox)
  BY <1>1 DEF Kept
<1>3. ASSUME NEW i \in 1..Len(s.inbox), i # s.fd
      PROVE  i # u.fd /\ u.inbox[i] = s.inbox[i]
  <2>1. i # t.fd /\ t.inbox[i] = s.inbox[i]
    BY <1>3 DEF Kept
  <2>2. i \in 1..Len(t.inbox)
    BY <1>1 DEF Kept
  <2>3. QED
    BY <2>1, <2>2 DEF Kept
<1>4. QED
  BY <1>2, <1>3 DEF Kept, Same

LEMMA OpenedFields ==
  ASSUME NEW s \in Servers, NEW creates \in BOOLEAN
  PROVE  LET N == Opened(s, creates)
         IN  /\ N \in Servers /\ Same(s, N) /\ Kept(s, N)
             /\ N.name = IF s.fd = 0 THEN None ELSE s.name
             /\ N.rsp = IF s.fd = 0 /\ s.name = None THEN "BAD_REQUEST" ELSE s.rsp
<1> DEFINE N == Opened(s, creates)
<1>0. Len(s.inbox) \in Nat /\ s.inbox \in Seq(Stored1) /\ s.cwd \in Paths
      /\ s.name \in Names \union {None}
  BY ServerFields
<1>1. CASE s.fd # 0
  <2>1. N = s
    BY <1>1 DEF Opened
  <2>2. QED
    BY <1>0, <1>1, <2>1 DEF Same, Kept
<1>2. CASE s.fd = 0
  <2>1. N = new_file(s, creates)
    BY <1>2 DEF Opened
  <2>2. /\ N \in Servers /\ Same(s, N)
        /\ N.name = None
        /\ N.rsp = IF s.name = None THEN "BAD_REQUEST" ELSE s.rsp
        /\ s.name # None /\ creates =>
             /\ N.fd = Len(s.inbox) + 1
             /\ N.inbox = Append(s.inbox, [dir |-> s.cwd, name |-> s.name, data |-> <<>>])
        /\ ~(s.name # None /\ creates) => N.fd = 0 /\ N.inbox = s.inbox
    BY <1>2, <2>1, NewFile
  <2> HIDE DEF N
  <2>3. Kept(s, N)
    <3>1. CASE s.name # None /\ creates
      <4> DEFINE e == [dir |-> s.cwd, name |-> s.name, data |-> <<>>]
      <4>1. e \in Stored1
        <5>1. <<>> \in Data
          BY EmptySeq DEF Data
        <5>2. QED
          BY <1>0, <3>1, <5>1 DEF Stored1
      <4> HIDE DEF e
      <4>2. Len(Append(s.inbox, e)) = Len(s.inbox) + 1
            /\ \A i \in 1..Len(s.inbox) : Append(s.inbox, e)[i] = s.inbox[i]
        BY <1>0, <4>1, AppendProperties
      <4>3. N.fd = Len(s.inbox) + 1 /\ N.inbox = Append(s.inbox, e)
        BY <2>2, <3>1 DEF e
      <4>4. \A i \in 1..Len(s.inbox) : i # N.fd
        BY <1>0, <4>3
      <4>5. Len(N.inbox) >= Len(s.inbox)
        BY <1>0, <4>2, <4>3
      <4>6. QED
        BY <4>2, <4>3, <4>4, <4>5 DEF Kept
    <3>2. CASE ~(s.name # None /\ creates)
      <4>1. N.fd = 0 /\ N.inbox = s.inbox
        BY <2>2, <3>2
      <4>2. QED
        BY <1>0, <4>1 DEF Kept
    <3>3. QED
      BY <3>1, <3>2
  <2>4. QED
    BY <1>2, <2>2, <2>3 DEF N
<1>3. QED
  BY <1>1, <1>2

LEMMA TakenKept ==
  ASSUME NEW t \in Servers, NEW data \in Data, NEW writes \in BOOLEAN
  PROVE  Kept(t, Taken(t, data, writes))
<1>1. Len(t.inbox) \in Nat
  BY ServerFields
<1> DEFINE R == Taken(t, data, writes)
<1>2. /\ R.fd = IF data = <<>> THEN 0 ELSE t.fd
      /\ Len(R.inbox) = Len(t.inbox)
      /\ \A i \in 1..Len(t.inbox) : i # t.fd => R.inbox[i] = t.inbox[i]
  BY ZenonT(60), TakenFields
<1> HIDE DEF R
<1>3. \A i \in 1..Len(t.inbox) : i # t.fd => i # R.fd
  BY <1>1, <1>2
<1>4. QED
  BY <1>1, <1>2, <1>3 DEF Kept, R

LEMMA ReceiveFields ==
  ASSUME NEW s \in Servers, NEW data \in Data, NEW creates \in BOOLEAN, NEW writes \in BOOLEAN
  PROVE  LET R == ircp_srv_receive(s, data, creates, writes)
         IN  /\ R \in Servers /\ Same(s, R) /\ Kept(s, R)
             /\ R.name = IF s.fd = 0 THEN None ELSE s.name
             /\ R.rsp = IF s.fd = 0 /\ s.name = None THEN "BAD_REQUEST" ELSE s.rsp
             /\ data = <<>> => R.fd = 0
<1> DEFINE N == Opened(s, creates)
           R == Taken(N, data, writes)
<1>1. /\ N \in Servers /\ Same(s, N) /\ Kept(s, N)
      /\ N.name = IF s.fd = 0 THEN None ELSE s.name
      /\ N.rsp = IF s.fd = 0 /\ s.name = None THEN "BAD_REQUEST" ELSE s.rsp
  BY OpenedFields
<1> HIDE DEF N
<1>2. /\ R \in Servers /\ Same(N, R) /\ Kept(N, R)
      /\ R.name = N.name /\ R.rsp = N.rsp
      /\ R.fd = IF data = <<>> THEN 0 ELSE N.fd
  <2>1. Kept(N, R)
    BY <1>1, TakenKept
  <2>2. /\ R \in Servers /\ Same(N, R)
        /\ R.name = N.name /\ R.rsp = N.rsp
        /\ R.fd = IF data = <<>> THEN 0 ELSE N.fd
    BY ZenonT(60), <1>1, TakenFields
  <2>3. QED
    BY <2>1, <2>2
<1> HIDE DEF R
<1>3. Same(s, R) /\ Kept(s, R)
  BY <1>1, <1>2, KeptTwice
<1>4. ircp_srv_receive(s, data, creates, writes) = R
  BY ReceiveIs DEF R, N
<1>5. QED
  BY <1>1, <1>2, <1>3, <1>4

LEMMA StreamFields ==
  ASSUME NEW s \in Servers, NEW p \in Packets, NEW creates \in BOOLEAN, NEW writes \in BOOLEAN
  PROVE  LET T == Stream(s, p, creates, writes)
         IN  /\ T \in Servers /\ Same(s, T) /\ Kept(s, T)
             /\ T.rsp \in {s.rsp, "BAD_REQUEST"}
             /\ p.end => T.fd = 0
             /\ p.data = <<>> /\ ~p.end => T = s
<1> DEFINE U == IF p.data = <<>> THEN s ELSE ircp_srv_receive(s, p.data, creates, writes)
           V == ircp_srv_receive(U, <<>>, creates, writes)
           T == IF p.end THEN V ELSE U
<1>0. p.data \in Data /\ <<>> \in Data /\ p.end \in BOOLEAN
  BY EmptySeq DEF Packets, Data
<1>1. U \in Servers /\ Same(s, U) /\ Kept(s, U) /\ U.rsp \in {s.rsp, "BAD_REQUEST"}
  <2>1. CASE p.data = <<>>
    <3>1. Same(s, s) /\ Kept(s, s)
      <4>1. Len(s.inbox) \in Nat
        BY ServerFields
      <4>2. QED
        BY <4>1 DEF Same, Kept
    <3>2. QED
      BY <2>1, <3>1
  <2>2. CASE p.data # <<>>
    <3> DEFINE W == ircp_srv_receive(s, p.data, creates, writes)
    <3>1. /\ W \in Servers /\ Same(s, W) /\ Kept(s, W)
          /\ W.rsp = IF s.fd = 0 /\ s.name = None THEN "BAD_REQUEST" ELSE s.rsp
      BY SMTT(30), <1>0, ReceiveFields
    <3>2. U = W
      BY <2>2
    <3> HIDE DEF W, U
    <3>3. QED
      BY <3>1, <3>2
  <2>3. QED
    BY <2>1, <2>2
<1>2. p.data = <<>> => U = s
  OBVIOUS
<1> HIDE DEF U
<1>3. V \in Servers /\ Same(U, V) /\ Kept(U, V) /\ V.rsp \in {U.rsp, "BAD_REQUEST"} /\ V.fd = 0
  <2>1. /\ V \in Servers /\ Same(U, V) /\ Kept(U, V)
        /\ V.rsp = IF U.fd = 0 /\ U.name = None THEN "BAD_REQUEST" ELSE U.rsp
        /\ <<>> = <<>> => V.fd = 0
    <3>1. U \in Servers /\ <<>> \in Data
      BY <1>0, <1>1
    <3>2. QED
      BY <3>1, ReceiveFields
  <2> HIDE DEF V
  <2>2. QED
    BY <2>1
<1> HIDE DEF V
<1>4. Same(s, V) /\ Kept(s, V) /\ V.rsp \in {s.rsp, "BAD_REQUEST"}
  BY <1>1, <1>3, KeptTwice
<1>5. Stream(s, p, creates, writes) = T
  BY DEF Stream, V, U
<1>6. QED
  BY <1>0, <1>1, <1>2, <1>3, <1>4, <1>5

(* A file that is open gets the data.                                       *)
Appended(s, p, t) ==
  /\ t.rsp = s.rsp
  /\ Len(t.inbox) = Len(s.inbox)
  /\ t.fd = IF p.end THEN 0 ELSE s.fd
  /\ t.inbox[s.fd].name = s.inbox[s.fd].name
  /\ t.inbox[s.fd].dir = s.inbox[s.fd].dir
  /\ t.inbox[s.fd].data = s.inbox[s.fd].data \o p.data

LEMMA StreamOpen ==
  ASSUME NEW s \in Servers, NEW p \in Packets, NEW creates \in BOOLEAN,
         NEW writes \in BOOLEAN, writes = TRUE, s.fd # 0
  PROVE  Appended(s, p, Stream(s, p, creates, writes))
<1> DEFINE U == IF p.data = <<>> THEN s ELSE ircp_srv_receive(s, p.data, creates, writes)
           V == ircp_srv_receive(U, <<>>, creates, writes)
           T == IF p.end THEN V ELSE U
<1>0. p.data \in Data /\ <<>> \in Data /\ p.end \in BOOLEAN
  BY EmptySeq DEF Packets, Data
<1>1. s.fd \in 1..Len(s.inbox) /\ s.inbox[s.fd] \in Stored1 /\ Len(s.inbox) \in Nat
  <2>1. s.fd \in Nat /\ s.fd <= Len(s.inbox) /\ s.inbox \in Seq(Stored1) /\ Len(s.inbox) \in Nat
    BY ServerFields
  <2>2. s.fd \in 1..Len(s.inbox)
    BY <2>1
  <2>3. QED
    BY <2>1, <2>2
<1>2. /\ U \in Servers /\ U.fd = s.fd /\ U.rsp = s.rsp /\ Len(U.inbox) = Len(s.inbox)
      /\ U.inbox[s.fd].name = s.inbox[s.fd].name
      /\ U.inbox[s.fd].dir = s.inbox[s.fd].dir
      /\ U.inbox[s.fd].data = s.inbox[s.fd].data \o p.data
  <2>1. CASE p.data = <<>>
    <3>1. s.inbox[s.fd].data \in Seq(Names \X Nat)
      BY <1>1 DEF Stored1, Data
    <3>2. s.inbox[s.fd].data \o <<>> = s.inbox[s.fd].data
      BY <3>1, ConcatEmptySeq
    <3>3. QED
      BY <2>1, <3>2
  <2>2. CASE p.data # <<>>
    <3>1. U = Taken(s, p.data, writes)
      BY <2>2, ReceiveIs DEF Opened
    <3> DEFINE R == Taken(s, p.data, writes)
    <3>2. /\ R \in Servers /\ R.rsp = s.rsp
          /\ R.fd = IF p.data = <<>> THEN 0 ELSE s.fd
          /\ Len(R.inbox) = Len(s.inbox)
          /\ \A i \in 1..Len(s.inbox) :
                  /\ R.inbox[i].name = s.inbox[i].name /\ R.inbox[i].dir = s.inbox[i].dir
                  /\ i = s.fd =>
                       R.inbox[i].data = s.inbox[i].data \o p.data
      <4>1. writes \in BOOLEAN /\ p.data \in Data
        BY <1>0
      <4>2. /\ R \in Servers /\ R.rsp = s.rsp
            /\ R.fd = IF p.data = <<>> THEN 0 ELSE s.fd
            /\ Len(R.inbox) = Len(s.inbox)
        BY <4>1, TakenFields
      <4>3. \A i \in 1..Len(s.inbox) :
                  /\ R.inbox[i].name = s.inbox[i].name /\ R.inbox[i].dir = s.inbox[i].dir
                  /\ i = s.fd =>
                       R.inbox[i].data = s.inbox[i].data \o p.data
        BY <4>1, TakenEntry
      <4>4. QED
        BY <4>2, <4>3
    <3> HIDE DEF R
    <3>3. U = R
      BY <3>1 DEF R
    <3> HIDE DEF U
    <3>4. QED
      BY <1>1, <2>2, <3>2, <3>3
  <2>3. QED
    BY <2>1, <2>2
<1> HIDE DEF U
<1>3. /\ V.fd = 0 /\ V.rsp = s.rsp /\ Len(V.inbox) = Len(s.inbox)
      /\ V.inbox[s.fd].name = s.inbox[s.fd].name
      /\ V.inbox[s.fd].dir = s.inbox[s.fd].dir
      /\ V.inbox[s.fd].data = s.inbox[s.fd].data \o p.data
  <2>1. V = [U EXCEPT !.fd = 0]
    BY <1>2, ReceiveIs DEF Opened, Taken
  <2>2. U.inbox = V.inbox /\ V.fd = 0 /\ V.rsp = U.rsp
    BY <1>2, <2>1, ServerFields
  <2>3. QED
    BY <1>2, <2>2
<1> HIDE DEF V
<1>4. Stream(s, p, creates, writes) = T
  BY DEF Stream, V, U
<1>5. QED
  BY <1>0, <1>2, <1>3, <1>4 DEF Appended

LEMMA NewEntry ==
  ASSUME NEW s \in Servers, s.fd = 0, s.name # None
  PROVE  LET N == new_file(s, TRUE)
             n == Len(s.inbox) + 1
         IN  /\ N.fd = n /\ Len(N.inbox) = n
             /\ N.inbox[n] = [dir |-> s.cwd, name |-> s.name, data |-> <<>>]
<1> DEFINE N == new_file(s, TRUE)
           e == [dir |-> s.cwd, name |-> s.name, data |-> <<>>]
<1>0. Len(s.inbox) \in Nat /\ s.inbox \in Seq(Stored1) /\ s.cwd \in Paths
      /\ s.name \in Names
  BY ServerFields
<1>1. N = [ircp_open_safe(s) EXCEPT !.name = None]
  BY DEF new_file
<1>2. N.fd = Len(s.inbox) + 1 /\ N.inbox = Append(s.inbox, e)
  <2>1. s \in [fd : Nat, cwd : Paths, dirdepth : Nat, finished : BOOLEAN,
               inbox : Seq(Stored1), dirs : SUBSET Paths,
               cmd : Ops \union {None}, name : Names \union {None},
               rsp : Codes]
    BY ServerFields
  <2>2. QED
    BY <1>1, <2>1 DEF ircp_open_safe
<1>3. <<>> \in Data
  BY EmptySeq DEF Data
<1>4. e \in Stored1
  BY <1>0, <1>3 DEF Stored1
<1> HIDE DEF e, N
<1>5. Len(Append(s.inbox, e)) = Len(s.inbox) + 1
      /\ Append(s.inbox, e)[Len(s.inbox) + 1] = e
  BY <1>0, <1>4, AppendProperties
<1>6. QED
  BY <1>2, <1>5 DEF N, e

(* A file that is made gets the data.                                       *)
LEMMA StreamNew ==
  ASSUME NEW s \in Servers, NEW p \in Packets, s.fd = 0, s.name # None,
         p.data # <<>> \/ p.end
  PROVE  LET T == Stream(s, p, TRUE, TRUE)
             n == Len(s.inbox) + 1
         IN  /\ T.rsp = s.rsp
             /\ Len(T.inbox) = n
             /\ T.fd = IF p.end THEN 0 ELSE n
             /\ T.inbox[n].name = s.name
             /\ T.inbox[n].dir = s.cwd
             /\ T.inbox[n].data = p.data
<1> DEFINE N == new_file(s, TRUE)
           n == Len(s.inbox) + 1
<1>1. /\ N \in Servers /\ N.rsp = s.rsp /\ N.fd = n /\ n # 0 /\ Len(N.inbox) = n
      /\ N.inbox[n] = [dir |-> s.cwd, name |-> s.name, data |-> <<>>]
  <2>1. Len(s.inbox) \in Nat
    BY ServerFields
  <2>2. N \in Servers /\ N.rsp = IF s.name = None THEN "BAD_REQUEST" ELSE s.rsp
    BY NewFile
  <2>3. /\ N.fd = n /\ Len(N.inbox) = n
        /\ N.inbox[n] = [dir |-> s.cwd, name |-> s.name, data |-> <<>>]
    BY NewEntry
  <2> HIDE DEF N
  <2>4. N.rsp = s.rsp
    BY <2>2
  <2>5. QED
    BY <2>1, <2>2, <2>3, <2>4
<1>2. Opened(s, TRUE) = N
  BY DEF Opened
<1> HIDE DEF N, n
<1>3. Opened(N, TRUE) = N
  BY <1>1 DEF Opened
<1>4. \A d : ircp_srv_receive(s, d, TRUE, TRUE) = ircp_srv_receive(N, d, TRUE, TRUE)
  BY <1>2, <1>3, ReceiveIs
<1>5. Stream(s, p, TRUE, TRUE) = Stream(N, p, TRUE, TRUE)
  <2>1. CASE p.data = <<>>
    BY <2>1, <1>4 DEF Stream
  <2>2. CASE p.data # <<>>
    BY <2>2, <1>4 DEF Stream
  <2>3. QED
    BY <2>1, <2>2
<1>6. Appended(N, p, Stream(N, p, TRUE, TRUE))
  <2>1. N \in Servers /\ N.fd # 0
    BY <1>1
  <2>2. QED
    BY <2>1, StreamOpen
<1>7. <<>> \o p.data = p.data
  <2>1. p.data \in Seq(Names \X Nat)
    BY DEF Packets, Data
  <2>2. QED
    BY <2>1, ConcatEmptySeq
<1> DEFINE T == Stream(s, p, TRUE, TRUE)
<1>8. /\ T.rsp = s.rsp
      /\ Len(T.inbox) = n
      /\ T.fd = IF p.end THEN 0 ELSE n
      /\ T.inbox[n].name = s.name
      /\ T.inbox[n].dir = s.cwd
      /\ T.inbox[n].data = p.data
  <2> DEFINE S == Stream(N, p, TRUE, TRUE)
  <2>1. /\ S.rsp = N.rsp
        /\ Len(S.inbox) = Len(N.inbox)
        /\ S.fd = IF p.end THEN 0 ELSE N.fd
        /\ S.inbox[N.fd].name = N.inbox[N.fd].name
        /\ S.inbox[N.fd].dir = N.inbox[N.fd].dir
        /\ S.inbox[N.fd].data = N.inbox[N.fd].data \o p.data
    BY <1>6 DEF Appended
  <2>2. T = S
    BY <1>5
  <2> HIDE DEF S, T
  <2>3. N.inbox[n].name = s.name /\ N.inbox[n].dir = s.cwd /\ N.inbox[n].data = <<>>
    BY <1>1
  <2>4. QED
    BY <1>1, <1>7, <2>1, <2>2, <2>3
<1>9. QED
  BY <1>8 DEF n

(* A file that cannot be made: its name is not found again.                 *)
LEMMA StreamNone ==
  ASSUME NEW s \in Servers, NEW p \in Packets, NEW writes \in BOOLEAN,
         s.fd = 0, s.name # None, p.data # <<>> \/ p.end
  PROVE  LET T == Stream(s, p, FALSE, writes)
         IN  /\ T.inbox = s.inbox /\ T.fd = 0 /\ T.name = None
             /\ T.rsp = IF p.data # <<>> /\ p.end THEN "BAD_REQUEST" ELSE s.rsp
<1> DEFINE N == [s EXCEPT !.name = None]
           B == [N EXCEPT !.rsp = "BAD_REQUEST"]
<1>1. s \in [fd : Nat, cwd : Paths, dirdepth : Nat, finished : BOOLEAN,
             inbox : Seq(Stored1), dirs : SUBSET Paths,
             cmd : Ops \union {None}, name : Names \union {None},
             rsp : Codes]
  BY ServerFields
<1>2. N.fd = 0 /\ N.name = None /\ N.inbox = s.inbox /\ N.rsp = s.rsp
      /\ B.fd = 0 /\ B.name = None /\ B.inbox = s.inbox /\ B.rsp = "BAD_REQUEST"
  BY <1>1
<1>3. \A d : ircp_srv_receive(s, d, FALSE, writes) = N
  BY <1>2 DEF ircp_srv_receive, new_file
<1>4. \A d : ircp_srv_receive(N, d, FALSE, writes) = B
  BY <1>2 DEF ircp_srv_receive, new_file
<1> HIDE DEF N, B
<1>5. CASE p.data = <<>>
  <2>1. p.end
    BY <1>5
  <2>2. Stream(s, p, FALSE, writes) = N
    BY <1>3, <1>5, <2>1 DEF Stream
  <2>3. QED
    BY <1>2, <1>5, <2>2
<1>6. CASE p.data # <<>> /\ p.end
  <2>1. Stream(s, p, FALSE, writes) = B
    BY <1>3, <1>4, <1>6 DEF Stream
  <2>2. QED
    BY <1>2, <1>6, <2>1
<1>7. CASE p.data # <<>> /\ ~p.end
  <2>1. Stream(s, p, FALSE, writes) = N
    BY <1>3, <1>7 DEF Stream
  <2>2. QED
    BY <1>2, <1>7, <2>1
<1>8. QED
  BY <1>5, <1>6, <1>7

(* After that the request is refused.                                       *)
LEMMA StreamDenied ==
  ASSUME NEW s \in Servers, NEW p \in Packets, NEW creates \in BOOLEAN, NEW writes \in BOOLEAN,
         s.fd = 0, s.name = None, p.data # <<>> \/ p.end
  PROVE  LET T == Stream(s, p, creates, writes)
         IN  T.inbox = s.inbox /\ T.fd = 0 /\ T.rsp = "BAD_REQUEST"
<1> DEFINE B == [s EXCEPT !.rsp = "BAD_REQUEST"]
           C == [B EXCEPT !.rsp = "BAD_REQUEST"]
<1>1. s \in [fd : Nat, cwd : Paths, dirdepth : Nat, finished : BOOLEAN,
             inbox : Seq(Stored1), dirs : SUBSET Paths,
             cmd : Ops \union {None}, name : Names \union {None},
             rsp : Codes]
  BY ServerFields
<1>2. /\ B.fd = 0 /\ B.name = None /\ B.inbox = s.inbox /\ B.rsp = "BAD_REQUEST"
      /\ C.fd = 0 /\ C.inbox = s.inbox /\ C.rsp = "BAD_REQUEST"
  BY <1>1
<1>3. \A d : ircp_srv_receive(s, d, creates, writes) = B
  BY <1>2 DEF ircp_srv_receive, new_file
<1>4. \A d : ircp_srv_receive(B, d, creates, writes) = C
  BY <1>2 DEF ircp_srv_receive, new_file
<1> HIDE DEF B, C
<1>5. Stream(s, p, creates, writes) \in {B, C}
  <2>1. CASE p.data = <<>>
    <3>1. p.end
      BY <2>1
    <3>2. QED
      BY <1>3, <2>1, <3>1 DEF Stream
  <2>2. CASE p.data # <<>> /\ p.end
    BY <1>3, <1>4, <2>2 DEF Stream
  <2>3. CASE p.data # <<>> /\ ~p.end
    BY <1>3, <2>3 DEF Stream
  <2>4. QED
    BY <2>1, <2>2, <2>3
<1>6. QED
  BY <1>2, <1>5

LEMMA DoneFields ==
  ASSUME NEW s \in Servers
  PROVE  LET R == ReqDone(s)
         IN  /\ R \in Servers /\ R.rsp = "SUCCESS" /\ R.cmd = None /\ R.name = None
             /\ R.fd = s.fd /\ R.inbox = s.inbox /\ R.cwd = s.cwd
             /\ s.finished => R.finished
             /\ [R EXCEPT !.finished = TRUE] \in Servers
             /\ [R EXCEPT !.finished = TRUE].finished
             /\ [R EXCEPT !.finished = TRUE].rsp = "SUCCESS"
             /\ [R EXCEPT !.finished = TRUE].cmd = None
             /\ [R EXCEPT !.finished = TRUE].fd = s.fd
             /\ [R EXCEPT !.finished = TRUE].inbox = s.inbox
<1> DEFINE R == ReqDone(s)
           F == [R EXCEPT !.finished = TRUE]
           b == s.finished \/ s.cmd = "DISCONNECT"
<1>1. /\ s \in [fd : Nat, cwd : Paths, dirdepth : Nat, finished : BOOLEAN,
                inbox : Seq(Stored1), dirs : SUBSET Paths,
                cmd : Ops \union {None}, name : Names \union {None},
                rsp : Codes]
      /\ s.fd <= Len(s.inbox) /\ s.dirdepth = Len(s.cwd) /\ s.finished \in BOOLEAN
  BY ServerFields
<1>2. b \in BOOLEAN /\ (s.finished => b)
  OBVIOUS
<1>3. R = [s EXCEPT !.cmd = None, !.name = None, !.rsp = "SUCCESS", !.finished = b]
  BY <1>1 DEF ReqDone
<1> HIDE DEF b, R
<1>4. /\ R \in Servers /\ R.rsp = "SUCCESS" /\ R.cmd = None /\ R.name = None
      /\ R.fd = s.fd /\ R.inbox = s.inbox /\ R.cwd = s.cwd /\ R.finished = b
  BY <1>1, <1>2, <1>3 DEF Servers, Codes
<1>5. /\ F \in Servers /\ F.finished = TRUE /\ F.rsp = "SUCCESS" /\ F.cmd = None
      /\ F.fd = s.fd /\ F.inbox = s.inbox
  BY <1>4 DEF Servers
<1>6. QED
  BY <1>2, <1>4, <1>5 DEF R

LEMMA RequestedFields ==
  ASSUME NEW s \in Servers, NEW creates \in BOOLEAN, s.cmd = "DOWN" => s.name \in Names
  PROVE  LET R == Requested(s, creates)
         IN  /\ R \in Servers
             /\ R.fd = s.fd /\ R.inbox = s.inbox /\ R.rsp \in {s.rsp, "FORBIDDEN"}
             /\ s.cmd \notin {"UP", "DOWN"} => R = s
             /\ s.cmd = "DOWN" =>
                  R.finished = TRUE \/ (R.cwd = Append(s.cwd, s.name) /\ R.rsp = s.rsp)
             /\ s.cmd = "UP" /\ s.cwd # <<>> =>
                  R.cwd = Front(s.cwd) /\ R.rsp = s.rsp
<1> DEFINE R == Requested(s, creates)
<1>1. /\ s \in [fd : Nat, cwd : Paths, dirdepth : Nat, finished : BOOLEAN,
                inbox : Seq(Stored1), dirs : SUBSET Paths,
                cmd : Ops \union {None}, name : Names \union {None},
                rsp : Codes]
      /\ s.fd <= Len(s.inbox) /\ s.dirdepth = Len(s.cwd) /\ s.finished \in BOOLEAN
      /\ s.cwd \in Paths /\ s.dirdepth \in Nat
  BY ServerFields
<1>2. /\ Refuse(s) \in Servers /\ Refuse(s).finished = TRUE /\ Refuse(s).rsp = "FORBIDDEN"
      /\ Refuse(s).fd = s.fd /\ Refuse(s).inbox = s.inbox
  BY <1>1 DEF Refuse, Servers, Codes
<1>3. CASE s.cmd = "UP"
  <2>1. R = GoUp(s)
    BY <1>3 DEF Requested
  <2>2. CASE s.dirdepth = 0
    <3>1. R = Refuse(s)
      BY <2>1, <2>2 DEF GoUp
    <3>2. s.cwd = <<>>
      BY <1>1, <2>2, EmptySeq DEF Paths
    <3>3. QED
      BY <1>2, <1>3, <3>1, <3>2
  <2>3. CASE s.dirdepth # 0
    <3> DEFINE c == Front(s.cwd)
    <3>1. R = [s EXCEPT !.cwd = c, !.dirdepth = s.dirdepth - 1]
      BY <1>1, <2>1, <2>3 DEF GoUp
    <3>2. s.cwd # <<>>
      BY <1>1, <2>3, EmptySeq
    <3>3. c \in Paths /\ Len(c) = Len(s.cwd) - 1
      BY <1>1, <3>2, FrontOfPath
    <3> HIDE DEF c
    <3>4. s.dirdepth - 1 \in Nat /\ s.dirdepth - 1 = Len(c)
      BY <1>1, <2>3, <3>3
    <3>5. R \in Servers /\ R.fd = s.fd /\ R.inbox = s.inbox /\ R.rsp = s.rsp /\ R.cwd = c
      BY <1>1, <3>1, <3>3, <3>4 DEF Servers
    <3>6. QED
      BY <1>3, <3>5 DEF c
  <2>4. QED
    BY <2>2, <2>3
<1>4. CASE s.cmd = "DOWN"
  <2>1. R = GoDown(s, creates)
    BY <1>4 DEF Requested
  <2>2. CASE ~ircp_checkdir(s, creates)
    <3>1. R = Refuse(s)
      BY <2>1, <2>2 DEF GoDown
    <3>2. QED
      BY <1>2, <1>4, <3>1
  <2>3. CASE ircp_checkdir(s, creates)
    <3> DEFINE c == Append(s.cwd, s.name)
    <3> DEFINE D == s.dirs \union {c}
    <3>1. R = [s EXCEPT !.cwd = c, !.dirdepth = s.dirdepth + 1, !.dirs = D]
      BY <1>1, <2>1, <2>3 DEF GoDown, Enter
    <3>2. c \in Paths /\ Len(c) = Len(s.cwd) + 1
      BY <1>1, <1>4, FrontOfPath
    <3>3. s.dirdepth + 1 \in Nat /\ s.dirdepth + 1 = Len(c)
      <4> HIDE DEF c
      <4>1. QED
        BY <1>1, <3>2
    <3>4. D \in SUBSET Paths
      <4>1. s.dirs \in SUBSET Paths
        BY <1>1
      <4> HIDE DEF c
      <4>2. QED
        BY <3>2, <4>1
    <3> HIDE DEF c, D
    <3>5. R \in Servers /\ R.fd = s.fd /\ R.inbox = s.inbox /\ R.rsp = s.rsp /\ R.cwd = c
      BY <1>1, <3>1, <3>2, <3>3, <3>4 DEF Servers
    <3>6. QED
      BY <1>4, <3>5 DEF c
  <2>4. QED
    BY <2>2, <2>3
<1>5. CASE s.cmd \notin {"UP", "DOWN"}
  <2>1. R = s
    BY <1>5 DEF Requested
  <2>2. QED
    BY <1>1, <1>5, <2>1
<1>6. QED
  BY <1>3, <1>4, <1>5

-----------------------------------------------------------------------------
(* A packet at the server.                                                  *)

Joined(p) ==
  [srv EXCEPT !.cmd = p.op, !.name = IF p.name # None THEN p.name ELSE srv.name]
Faulted(p, s, creates, writes) ==
  CASE ~creates /\ writes ->
         /\ s.name # None /\ p.op \in {"PUT", "DOWN"}
         /\ s.fd = 0
         /\ Fault("create")
    [] creates /\ ~writes -> p.data # <<>> /\ Fault("write")
    [] ~creates /\ ~writes -> FALSE
    [] OTHER -> UNCHANGED faults
Taking(p, creates, writes) ==
  LET t == Stream(Joined(p), p, creates, writes)
      u == IF p.final THEN Requested(t, creates) ELSE t
  IN  /\ Faulted(p, Joined(p), creates, writes)
      /\ IF p.final \/ u.rsp # "SUCCESS"
           THEN toClient' = u.rsp /\ srv' = ReqDone(u)
           ELSE toClient' = "CONTINUE" /\ srv' = u
Mistaken ==
  /\ srv.cmd # None /\ Command(srv.cmd) # Command(toServer.op)
  /\ toClient' = "BAD_REQUEST"
  /\ srv' = [ReqDone(srv) EXCEPT !.finished = TRUE]
  /\ UNCHANGED faults

LEMMA ReceivesIs ==
  ASSUME Receives
  PROVE  /\ spc = "running" /\ ~srv.finished /\ toServer # None
         /\ toServer' = None
         /\ UNCHANGED <<clientVars, object, link, spc>>
         /\ \/ Mistaken
            \/ /\ ~(srv.cmd # None /\ Command(srv.cmd) # Command(toServer.op))
               /\ \E creates, writes \in BOOLEAN : Taking(toServer, creates, writes)
BY ZenonT(60) DEF Receives, Mistaken, Taking, Faulted, Joined

LEMMA FaultedFaults ==
  ASSUME NEW p, NEW s, NEW creates \in BOOLEAN, NEW writes \in BOOLEAN, faults \subseteq Faults,
         Faulted(p, s, creates, writes)
  PROVE  /\ faults \subseteq faults' /\ faults' \subseteq faults \union {"create", "write"}
         /\ faults' \subseteq Faults
         /\ "write" \notin faults' => writes = TRUE
         /\ writes = TRUE /\ ~creates => "create" \in faults' /\ s.fd = 0 /\ s.name # None
         /\ writes = TRUE => creates = TRUE \/ creates = FALSE
<1>1. CASE ~creates /\ writes
  BY <1>1 DEF Faulted, Fault, Faults
<1>2. CASE creates /\ ~writes
  BY <1>2 DEF Faulted, Fault, Faults
<1>3. CASE ~creates /\ ~writes
  BY <1>3 DEF Faulted
<1>4. CASE creates /\ writes
  BY <1>4 DEF Faulted
<1>5. QED
  BY <1>1, <1>2, <1>3, <1>4

LEMMA JoinedFields ==
  ASSUME NEW p \in Packets, srv \in Servers
  PROVE  LET s == Joined(p)
         IN  /\ s \in Servers /\ s.cmd = p.op
             /\ s.name = IF p.name # None THEN p.name ELSE srv.name
             /\ s.fd = srv.fd /\ s.inbox = srv.inbox /\ s.cwd = srv.cwd
             /\ s.finished = srv.finished /\ s.rsp = srv.rsp
             /\ Kept(srv, s)
<1> DEFINE s == Joined(p)
           n == IF p.name # None THEN p.name ELSE srv.name
<1>1. /\ srv \in [fd : Nat, cwd : Paths, dirdepth : Nat, finished : BOOLEAN,
                  inbox : Seq(Stored1), dirs : SUBSET Paths,
                  cmd : Ops \union {None}, name : Names \union {None},
                  rsp : Codes]
      /\ srv.fd <= Len(srv.inbox) /\ srv.dirdepth = Len(srv.cwd) /\ Len(srv.inbox) \in Nat
  BY ServerFields
<1>2. n \in Names \union {None} /\ p.op \in Ops
  BY <1>1 DEF Packets
<1>3. s = [srv EXCEPT !.cmd = p.op, !.name = n]
  BY DEF Joined
<1> HIDE DEF n, s
<1>4. /\ s \in Servers /\ s.cmd = p.op /\ s.name = n
      /\ s.fd = srv.fd /\ s.inbox = srv.inbox /\ s.cwd = srv.cwd
      /\ s.finished = srv.finished /\ s.rsp = srv.rsp
  BY <1>1, <1>2, <1>3 DEF Servers
<1>5. Kept(srv, s)
  BY <1>1, <1>4 DEF Kept
<1>6. QED
  BY <1>4, <1>5 DEF s, n

Wellformed(p) ==
  /\ p \in Packets
  /\ p.op # "PUT" => p.final /\ ~p.end /\ p.data = <<>>
  /\ p.op = "DOWN" => p.name \in Names

Shaped(p) ==
  /\ srv' \in Servers /\ srv'.rsp = "SUCCESS" /\ srv'.cmd \in {None, "PUT"}
  /\ toClient' \in Codes /\ (toClient' = "CONTINUE" => p.op = "PUT")
  /\ Kept(srv, srv')
  /\ p.op # "PUT" => srv'.inbox = srv.inbox /\ srv'.fd = srv.fd /\ srv'.cmd = None
  /\ p.op \notin {"UP", "DOWN"} => srv'.cwd = srv.cwd
  /\ p.op = "DOWN" =>
       (srv'.finished \/ (srv'.cwd = Append(srv.cwd, p.name) /\ toClient' = "SUCCESS"))
  /\ p.op = "UP" /\ srv.cwd # <<>> =>
       srv'.cwd = Front(srv.cwd) /\ toClient' = "SUCCESS"

LEMMA TakingShape ==
  ASSUME NEW p, Wellformed(p), srv \in Servers, srv.rsp = "SUCCESS",
         NEW creates \in BOOLEAN, NEW writes \in BOOLEAN, Taking(p, creates, writes)
  PROVE  Shaped(p)
<1> DEFINE s == Joined(p)
           t == Stream(s, p, creates, writes)
           u == IF p.final THEN Requested(t, creates) ELSE t
<1>0. p \in Packets /\ p.op \in Ops /\ p.final \in BOOLEAN /\ p.end \in BOOLEAN
  BY DEF Wellformed, Packets
<1>1. /\ s \in Servers /\ s.cmd = p.op
      /\ s.name = IF p.name # None THEN p.name ELSE srv.name
      /\ s.fd = srv.fd /\ s.inbox = srv.inbox /\ s.cwd = srv.cwd
      /\ s.finished = srv.finished /\ s.rsp = "SUCCESS"
      /\ Kept(srv, s)
  BY <1>0, JoinedFields
<1>2. IF p.final \/ u.rsp # "SUCCESS"
      THEN toClient' = u.rsp /\ srv' = ReqDone(u)
      ELSE toClient' = "CONTINUE" /\ srv' = u
  BY DEF Taking
<1> HIDE DEF s
<1>3. /\ t \in Servers /\ Same(s, t) /\ Kept(s, t)
      /\ t.rsp \in {s.rsp, "BAD_REQUEST"}
      /\ p.data = <<>> /\ ~p.end => t = s
  <2>1. t \in Servers /\ Same(s, t) /\ Kept(s, t)
    BY <1>0, <1>1, StreamFields
  <2>2. t.rsp \in {s.rsp, "BAD_REQUEST"}
    BY <1>0, <1>1, StreamFields
  <2>3. p.data = <<>> /\ ~p.end => t = s
    BY DEF Stream
  <2>4. QED
    BY <2>1, <2>2, <2>3
<1>4. p.op = "DOWN" => t = s /\ t.name = p.name /\ t.name \in Names
  BY <1>1, <1>3, NoneAssumption DEF Wellformed
<1>5. p.op # "PUT" => t = s
  BY <1>3 DEF Wellformed
<1> HIDE DEF t
<1>6. t.cmd = p.op /\ t.cwd = srv.cwd /\ t.rsp \in {"SUCCESS", "BAD_REQUEST"}
  BY <1>1, <1>3 DEF Same
<1>7. Kept(srv, t)
  <2>1. Kept(s, t) => Kept(srv, t)
    BY <1>1 DEF Kept
  <2>2. QED
    BY <1>3, <2>1
<1> DEFINE R == Requested(t, creates)
<1>8. /\ R \in Servers
      /\ R.fd = t.fd /\ R.inbox = t.inbox /\ R.rsp \in {t.rsp, "FORBIDDEN"}
      /\ t.cmd \notin {"UP", "DOWN"} => R = t
      /\ t.cmd = "DOWN" =>
           R.finished = TRUE \/ (R.cwd = Append(t.cwd, t.name) /\ R.rsp = t.rsp)
      /\ t.cmd = "UP" /\ t.cwd # <<>> =>
           R.cwd = Front(t.cwd) /\ R.rsp = t.rsp
  <2>1. t \in Servers /\ (t.cmd = "DOWN" => t.name \in Names)
    BY <1>3, <1>4, <1>6
  <2>2. QED
    BY <2>1, RequestedFields
<1> HIDE DEF R
<1>9. u = IF p.final THEN R ELSE t
  BY DEF R
<1> HIDE DEF u
<1>10. /\ u \in Servers /\ u.fd = t.fd /\ u.inbox = t.inbox
       /\ u.rsp \in {"SUCCESS", "BAD_REQUEST", "FORBIDDEN"}
  BY <1>3, <1>6, <1>8, <1>9
<1>11. /\ p.op \notin {"UP", "DOWN"} => u.cwd = srv.cwd /\ u.cmd = p.op
       /\ p.op = "DOWN" => u.finished = TRUE \/ (u.cwd = Append(srv.cwd, p.name) /\ u.rsp = "SUCCESS")
       /\ p.op = "UP" /\ srv.cwd # <<>> => u.cwd = Front(srv.cwd) /\ u.rsp = "SUCCESS"
  <2>1. p.op # "PUT" => p.final /\ t.rsp = "SUCCESS"
    BY <1>1, <1>5 DEF Wellformed
  <2>2. p.op # "PUT" => u = R
    BY <2>1, <1>9
  <2>3. CASE p.op \in {"UP", "DOWN"}
    BY <2>1, <2>2, <2>3, <1>4, <1>6, <1>8
  <2>4. CASE p.op \notin {"UP", "DOWN"}
    <3>1. u = t
      BY <2>4, <1>6, <1>8, <1>9
    <3>2. QED
      BY <2>4, <3>1, <1>6
  <2>5. QED
    BY <2>3, <2>4
<1>12. Kept(srv, u)
  BY <1>7, <1>10 DEF Kept
<1>13. CASE p.final \/ u.rsp # "SUCCESS"
  <2>1. toClient' = u.rsp /\ srv' = ReqDone(u)
    BY <1>2, <1>13
  <2>2. /\ srv' \in Servers /\ srv'.rsp = "SUCCESS" /\ srv'.cmd = None
        /\ srv'.fd = u.fd /\ srv'.inbox = u.inbox /\ srv'.cwd = u.cwd
        /\ u.finished => srv'.finished
    BY <1>10, <2>1, DoneFields
  <2>3. Kept(srv, srv')
    BY <1>12, <2>2 DEF Kept
  <2>4. toClient' \in Codes /\ toClient' # "CONTINUE"
    BY <1>10, <2>1 DEF Codes
  <2>5. p.op # "PUT" => srv'.inbox = srv.inbox /\ srv'.fd = srv.fd
    BY <1>1, <1>5, <1>10, <2>2
  <2>6. QED
    BY <1>11, <2>1, <2>2, <2>3, <2>4, <2>5 DEF Shaped
<1>14. CASE ~(p.final \/ u.rsp # "SUCCESS")
  <2>1. toClient' = "CONTINUE" /\ srv' = u
    BY <1>2, <1>14
  <2>2. p.op = "PUT" /\ u.rsp = "SUCCESS"
    BY <1>14 DEF Wellformed
  <2>3. QED
    BY <1>10, <1>11, <1>12, <2>1, <2>2 DEF Codes, Shaped
<1>15. QED
  BY <1>13, <1>14

-----------------------------------------------------------------------------
(* The client's calls.                                                      *)

(* Of file f the chunks up to m are sent.                                   *)
Carries(p, f, m) ==
  /\ p.data = SubSeq(Chunked(f.file.name, f.file.chunks), f.next, m)
  /\ \/ /\ m \in f.next..f.file.chunks /\ fd' = [f EXCEPT !.next = m + 1]
        /\ fd' \in Opens /\ fd' # None /\ fd'.file = f.file /\ fd'.next = m + 1
        /\ p.end = FALSE /\ p.final = FALSE
     \/ m = f.file.chunks /\ fd' = None /\ p.end = TRUE /\ p.final = TRUE
Packs(r, name, f) ==
  /\ link = "up" /\ object' = r /\ finished' = FALSE /\ success' = success
  /\ faults' = faults
  /\ toServer' \in Packets /\ toServer' # None
  /\ toServer'.op = r.op /\ toServer'.name = name
  /\ r.op # "PUT" => fd' = f /\ toServer'.final /\ ~toServer'.end /\ toServer'.data = <<>>
  /\ r.op = "PUT" =>
       f # None /\ \E m \in (f.next - 1)..f.file.chunks : Carries(toServer', f, m)
Fails(r, f) ==
  /\ object' = None /\ finished' = TRUE /\ success' = FALSE /\ toServer' = toServer
  /\ fd' \in {None, f}
  /\ faults \subseteq faults' /\ faults' \subseteq faults \union {"read"}
  /\ link = "up" => r.op = "PUT" /\ (f = None \/ "read" \in faults')

LEMMA OpenFields ==
  ASSUME NEW f \in Opens
  PROVE  /\ f.file \in Files /\ f.next \in Nat /\ f.next \in 1..(f.file.chunks + 1)
         /\ f.file.chunks \in Nat /\ f.file.name \in Names /\ f # None
         /\ f = [file |-> f.file, next |-> f.next]
         /\ Chunks(f.file) = Chunked(f.file.name, f.file.chunks)
<1>1. f \in [file : Files, next : Nat] /\ f.next \in 1..(f.file.chunks + 1)
  BY DEF Opens
<1>2. f.file \in Files
  BY <1>1
<1>3. f # None
  BY <1>1, NoneAssumption
<1>4. QED
  BY <1>1, <1>2, <1>3, ChunksOf

LEMMA PacketIs ==
  ASSUME NEW op \in Ops, NEW name \in Names \union {None}, NEW data \in Data,
         NEW end \in BOOLEAN, NEW final \in BOOLEAN
  PROVE  LET p == Packet(op, name, data, end, final)
         IN  /\ p \in Packets /\ p # None /\ p.op = op /\ p.name = name /\ p.data = data
             /\ p.end = end /\ p.final = final
<1> DEFINE p == Packet(op, name, data, end, final)
<1>1. p \in [op : Ops, name : Names \union {None}, data : Data, end : BOOLEAN, final : BOOLEAN]
  BY DEF Packet
<1>2. p # None
  BY <1>1, NoneAssumption DEF Data
<1>3. QED
  BY <1>1, <1>2 DEF Packet, Packets

LEMMA PutPacket ==
  ASSUME NEW f \in Opens, NEW name \in Names \union {None}, NEW x \in PutPackets(name, f),
         toServer' = x.p, fd' = x.fd
  PROVE  /\ toServer' \in Packets /\ toServer' # None
         /\ toServer'.op = "PUT" /\ toServer'.name = name
         /\ \E m \in (f.next - 1)..f.file.chunks : Carries(toServer', f, m)
<1> DEFINE c == f.file.chunks
           D(m) == SubSeq(Chunked(f.file.name, c), f.next, m)
<1>1. /\ f.file \in Files /\ f.next \in Nat /\ f.next \in 1..(c + 1)
      /\ c \in Nat /\ f.file.name \in Names
      /\ f = [file |-> f.file, next |-> f.next]
      /\ Chunks(f.file) = Chunked(f.file.name, c)
  BY OpenFields
<1>2. ASSUME NEW m \in (f.next - 1)..c
      PROVE  D(m) \in Data
  <2>1. (f.next - 1) \in 0..c /\ (f.next - 1) + 1 = f.next
    BY <1>1
  <2>2. SubSeq(Chunked(f.file.name, c), (f.next - 1) + 1, m) \in Data
    <3> HIDE DEF c
    <3>1. QED
      BY <1>1, <2>1, ChunkJoin
  <2>3. QED
    BY <2>1, <2>2
<1>3. "PUT" \in Ops
  BY DEF Ops
<1>4. CASE \E m \in f.next..c :
             x = [p |-> Packet("PUT", name, D(m), FALSE, FALSE),
                  fd |-> [f EXCEPT !.next = m + 1]]
  <2>1. PICK m \in f.next..c :
             x = [p |-> Packet("PUT", name, D(m), FALSE, FALSE),
                  fd |-> [f EXCEPT !.next = m + 1]]
    BY <1>4
  <2>2. m \in (f.next - 1)..c /\ m + 1 \in 1..(c + 1) /\ m + 1 \in Nat
    BY <1>1
  <2>3. D(m) \in Data
    BY <1>2, <2>2
  <2>4. toServer' = Packet("PUT", name, D(m), FALSE, FALSE) /\ fd' = [f EXCEPT !.next = m + 1]
    BY <2>1
  <2> HIDE DEF D
  <2>5. /\ toServer' \in Packets /\ toServer' # None
        /\ toServer'.op = "PUT" /\ toServer'.name = name
        /\ toServer'.data = D(m) /\ toServer'.end = FALSE /\ toServer'.final = FALSE
    <3>1. toServer' = [op |-> "PUT", name |-> name, data |-> D(m),
                       end |-> FALSE, final |-> FALSE]
      BY <2>4 DEF Packet
    <3>2. /\ toServer'.op = "PUT" /\ toServer'.name = name
          /\ toServer'.data = D(m) /\ toServer'.end = FALSE /\ toServer'.final = FALSE
      BY <3>1
    <3>3. toServer' \in Packets
      BY <1>3, <2>3, <3>1 DEF Packets
    <3>4. toServer' # None
      BY <3>3, NoneAssumption DEF Packets, Data
    <3>5. QED
      BY <3>2, <3>3, <3>4
  <2>6. fd' = [file |-> f.file, next |-> m + 1]
    BY <1>1, <2>4
  <2>7. fd' \in Opens /\ fd'.file = f.file /\ fd'.next = m + 1
    BY <1>1, <2>2, <2>6 DEF Opens
  <2>8. fd' # None
    BY <2>7, NoneAssumption DEF Opens
  <2>9. Carries(toServer', f, m)
    BY <2>4, <2>5, <2>7, <2>8 DEF Carries, D
  <2>10. QED
    BY <2>2, <2>5, <2>9
<1>5. CASE x = [p |-> Packet("PUT", name, D(c), TRUE, TRUE), fd |-> None]
  <2>1. c \in (f.next - 1)..c
    BY <1>1
  <2>2. D(c) \in Data
    BY <1>2, <2>1
  <2>3. toServer' = Packet("PUT", name, D(c), TRUE, TRUE) /\ fd' = None
    BY <1>5
  <2> HIDE DEF D
  <2>4. /\ toServer' \in Packets /\ toServer' # None
        /\ toServer'.op = "PUT" /\ toServer'.name = name
        /\ toServer'.data = D(c) /\ toServer'.end = TRUE /\ toServer'.final = TRUE
    <3>1. toServer' = [op |-> "PUT", name |-> name, data |-> D(c),
                       end |-> TRUE, final |-> TRUE]
      BY <2>3 DEF Packet
    <3>2. /\ toServer'.op = "PUT" /\ toServer'.name = name
          /\ toServer'.data = D(c) /\ toServer'.end = TRUE /\ toServer'.final = TRUE
      BY <3>1
    <3>3. toServer' \in Packets
      BY <1>3, <2>2, <3>1 DEF Packets
    <3>4. toServer' # None
      BY <3>3, NoneAssumption DEF Packets, Data
    <3>5. QED
      BY <3>2, <3>3, <3>4
  <2>5. Carries(toServer', f, c)
    BY <2>3, <2>4 DEF Carries, D
  <2>6. QED
    BY <2>1, <2>4, <2>5
<1>6. QED
  BY <1>1, <1>4, <1>5 DEF PutPackets

(* The request and its first packet, or the next, are ones that may be sent. *)
MaySend(r, name, f) ==
  /\ r \in Requests
  /\ name \in Names \union {None}
  /\ r.op = "DOWN" => name = r.file.name
  /\ f # None => f \in Opens

LEMMA SendsOut ==
  ASSUME NEW r, NEW name, NEW f, MaySend(r, name, f), faults \subseteq Faults,
         Sends(r, name, f)
  PROVE  Packs(r, name, f) \/ Fails(r, f)
<1>0. r.op \in Ops
  BY VisitFields DEF MaySend, Requests, VisitsOf
<1>1. CASE /\ link = "up"
           /\ object' = r
           /\ \/ /\ r.op = "PUT" /\ f # None
                 /\ \E x \in PutPackets(name, f) : toServer' = x.p /\ fd' = x.fd
              \/ /\ r.op # "PUT"
                 /\ toServer' = Packet(r.op, name, <<>>, FALSE, TRUE)
                 /\ fd' = f
           /\ UNCHANGED <<success, faults>>
           /\ finished' = FALSE
  <2>1. CASE r.op = "PUT"
    <3>1. f \in Opens /\ name \in Names \union {None} /\ f # None
      BY <1>1, <2>1 DEF MaySend
    <3>2. PICK x \in PutPackets(name, f) : toServer' = x.p /\ fd' = x.fd
      BY <1>1, <2>1
    <3>3. /\ toServer' \in Packets /\ toServer' # None
          /\ toServer'.op = "PUT" /\ toServer'.name = name
          /\ \E m \in (f.next - 1)..f.file.chunks : Carries(toServer', f, m)
      BY <3>1, <3>2, PutPacket
    <3>4. QED
      BY <1>1, <2>1, <3>1, <3>3 DEF Packs
  <2>2. CASE r.op # "PUT"
    <3>1. toServer' = [op |-> r.op, name |-> name, data |-> <<>>, end |-> FALSE, final |-> TRUE]
      BY <1>1, <2>2 DEF Packet
    <3>2. /\ toServer'.op = r.op /\ toServer'.name = name /\ toServer'.data = <<>>
          /\ toServer'.end = FALSE /\ toServer'.final = TRUE
      BY <3>1
    <3>3. <<>> \in Data
      BY EmptySeq DEF Data
    <3>4. toServer' \in Packets
      BY <1>0, <3>1, <3>3 DEF Packets, MaySend
    <3>5. toServer' # None
      BY <3>4, NoneAssumption DEF Packets, Data
    <3>6. QED
      BY <1>1, <2>2, <3>2, <3>4, <3>5 DEF Packs
  <2>3. QED
    BY <2>1, <2>2
<1>2. CASE /\ link = "up" /\ r.op = "PUT"
           /\ IF f = None THEN UNCHANGED faults ELSE Fault("read")
           /\ fd' = None
           /\ Linkerr
           /\ UNCHANGED toServer
  BY <1>2 DEF Linkerr, Fault, Fails
<1>3. CASE /\ link # "up"
           /\ fd' = f
           /\ Linkerr
           /\ UNCHANGED <<toServer, faults>>
  BY <1>3 DEF Linkerr, Fails
<1>4. QED
  BY <1>1, <1>2, <1>3 DEF Sends

LEMMA NoneIs ==
  /\ None \notin Codes /\ None # "CONTINUE" /\ None # "SUCCESS" /\ None # "PUT"
  /\ None \notin Names
BY NoneAssumption DEF Codes, Ops

(* After a call of the library with nothing under way.                      *)
LEMMA SendsTyped ==
  ASSUME NEW r, NEW name, NEW f, MaySend(r, name, f), Packs(r, name, f) \/ Fails(r, f),
         toServer = None, toClient' = None, link' = link, link # "none", pc' # "done",
         success \in BOOLEAN, faults \subseteq Faults
  PROVE  /\ LibraryTyped' /\ Held'
         /\ finished' \in BOOLEAN /\ success' \in BOOLEAN
         /\ faults \subseteq faults' /\ faults' \subseteq faults \union {"read"}
         /\ faults' \subseteq Faults
<1>0. r \in Requests /\ r # None
  BY VisitFields DEF MaySend
<1>1. CASE Packs(r, name, f)
  <2>1. fd' # None => fd' \in Opens
    <3>1. CASE r.op = "PUT"
      BY <1>1, <3>1 DEF Packs, Carries
    <3>2. CASE r.op # "PUT"
      BY <1>1, <3>2 DEF Packs, MaySend
    <3>3. QED
      BY <3>1, <3>2
  <2>2. object' = r /\ toServer' \in Packets /\ toServer'.op = r.op /\ toServer'.name = name
    BY <1>1 DEF Packs
  <2>3. r.op # "PUT" => toServer'.final /\ ~toServer'.end /\ toServer'.data = <<>>
    BY <1>1 DEF Packs
  <2>4. r.op = "DOWN" => name = r.file.name
    BY DEF MaySend
  <2>5. LibraryTyped'
    BY <1>0, <2>1, <2>2, <2>3, <2>4, NoneIs DEF LibraryTyped
  <2>6. link = "up" /\ finished' = FALSE /\ success' = success /\ faults' = faults
    BY <1>1 DEF Packs
  <2>7. Held'
    BY <1>0, <2>2, <2>6 DEF Held
  <2>8. QED
    BY <2>5, <2>6, <2>7
<1>2. CASE Fails(r, f)
  <2>1. LibraryTyped'
    BY <1>2, NoneIs DEF Fails, LibraryTyped, MaySend
  <2>2. Held'
    BY <1>2 DEF Fails, Held
  <2>3. faults' \subseteq Faults
    BY <1>2 DEF Fails, Faults
  <2>4. QED
    BY <1>2, <2>1, <2>2, <2>3 DEF Fails
<1>3. QED
  BY <1>1, <1>2

Refused(r, f) ==
  /\ object # None /\ finished' = FALSE /\ fd' = f
  /\ success' = success /\ object' = object /\ toServer' = toServer /\ faults' = faults

LEMMA StartOut ==
  ASSUME NEW r, NEW name, NEW f, MaySend(r, name, f), faults \subseteq Faults,
         cli_sync_request(r, name, f)
  PROVE  /\ step' = r
         /\ Refused(r, f) \/ (object = None /\ (Packs(r, name, f) \/ Fails(r, f)))
<1>1. CASE object = None
  <2>1. Sends(r, name, f)
    BY <1>1 DEF cli_sync_request
  <2>2. QED
    BY <1>1, <2>1, SendsOut DEF cli_sync_request
<1>2. CASE object # None
  BY <1>2 DEF cli_sync_request, Refused
<1>3. QED
  BY <1>1, <1>2

LEMMA StartTyped ==
  ASSUME Typed, Stages, NEW r, NEW name, NEW f, MaySend(r, name, f),
         cli_sync_request(r, name, f), toClient' = toClient, link' = link,
         link # "none", pc' # "done", pc # "done"
  PROVE  /\ step' = r /\ r \in Requests
         /\ LibraryTyped' /\ Held'
         /\ finished' \in BOOLEAN /\ success' \in BOOLEAN
         /\ faults \subseteq faults' /\ faults' \subseteq faults \union {"read"}
         /\ faults' \subseteq Faults
<1>0. faults \subseteq Faults /\ success \in BOOLEAN
  BY DEF Typed, ClientTyped
<1>1. /\ step' = r
      /\ Refused(r, f) \/ (object = None /\ (Packs(r, name, f) \/ Fails(r, f)))
  BY <1>0, StartOut
<1>2. CASE Refused(r, f)
  <2>1. LibraryTyped'
    BY <1>2 DEF Refused, Typed, LibraryTyped, MaySend
  <2>2. Held'
    BY <1>2 DEF Refused, Stages, Held
  <2>3. QED
    BY <1>0, <1>1, <1>2, <2>1, <2>2 DEF Refused, MaySend
<1>3. CASE object = None /\ (Packs(r, name, f) \/ Fails(r, f))
  <2>1. toServer = None /\ toClient' = None
    BY <1>3 DEF Stages, Held
  <2>2. /\ LibraryTyped' /\ Held'
        /\ finished' \in BOOLEAN /\ success' \in BOOLEAN
        /\ faults \subseteq faults' /\ faults' \subseteq faults \union {"read"}
        /\ faults' \subseteq Faults
    BY <1>0, <1>3, <2>1, SendsTyped
  <2>3. QED
    BY <1>1, <2>2 DEF MaySend
<1>4. QED
  BY <1>1, <1>2, <1>3

-----------------------------------------------------------------------------
(* The types of the variables, and where the client is.                     *)

LEMMA InitTyped == Init => Typed /\ Stages
<1> SUFFICES ASSUME Init
             PROVE  Typed /\ Stages
  OBVIOUS
<1>1. left \in Seq(Nodes) /\ <<>> \in Seq(Visits)
  BY ArgsAssumption, EmptySeq DEF Init
<1>2. ClientTyped
  BY <1>1 DEF Init, ClientTyped
<1>3. LibraryTyped
  BY NoneIs DEF Init, LibraryTyped
<1>4. ServerTyped
  <2>1. srv \in [fd : {0}, cwd : {<<>>}, dirdepth : {0}, finished : BOOLEAN,
              inbox : {<<>>}, dirs : {{}}, cmd : {None}, name : {None}, rsp : {"SUCCESS"}]
    BY DEF Init
  <2>2. <<>> \in Seq(Names) /\ <<>> \in Seq(Stored1) /\ Len(<<>>) = 0
    BY EmptySeq
  <2>3. srv \in [fd : Nat, cwd : Paths, dirdepth : Nat, finished : BOOLEAN,
                 inbox : Seq(Stored1), dirs : SUBSET Paths,
                 cmd : Ops \union {None}, name : Names \union {None},
                 rsp : Codes]
    <3>1. 0 \in Nat /\ <<>> \in Paths /\ "SUCCESS" \in Codes
      BY <2>2 DEF Paths, Codes
    <3>2. {0} \subseteq Nat /\ {<<>>} \subseteq Paths /\ {<<>>} \subseteq Seq(Stored1)
          /\ {None} \subseteq Ops \union {None} /\ {None} \subseteq Names \union {None}
          /\ {"SUCCESS"} \subseteq Codes /\ {{}} \subseteq SUBSET Paths
      BY <2>2, <3>1
    <3>3. \A S \in SUBSET Paths, T \in SUBSET Seq(Stored1) :
            [fd : {0}, cwd : S, dirdepth : {0}, finished : BOOLEAN,
             inbox : T, dirs : {{}}, cmd : {None}, name : {None}, rsp : {"SUCCESS"}]
              \subseteq [fd : Nat, cwd : Paths, dirdepth : Nat, finished : BOOLEAN,
                 inbox : Seq(Stored1), dirs : SUBSET Paths,
                 cmd : Ops \union {None}, name : Names \union {None},
                 rsp : Codes]
      BY <3>2
    <3>4. QED
      BY <2>1, <3>2, <3>3
  <2>4. srv.fd = 0 /\ srv.cwd = <<>> /\ srv.dirdepth = 0 /\ srv.inbox = <<>> /\ srv.cmd = None
        /\ srv.rsp = "SUCCESS"
    BY <2>1
  <2>5. QED
    BY <2>2, <2>3, <2>4 DEF ServerTyped, Servers
<1>5. Stages
  BY DEF Init, Stages, Progress, Held
<1>6. QED
  BY <1>2, <1>3, <1>4, <1>5 DEF Typed

LEMMA TransportConnectsTyped ==
  ASSUME Typed, Stages, TransportConnects
  PROVE  Typed' /\ Stages'
<1>1. /\ UNCHANGED <<left, todo, step, finished, success, fd, reported, strayed,
                 object, toServer, toClient, spc, srv>>
      /\ pc = "connect" /\ step = None /\ link = "none"
      /\ pc' \in {"connect", "done"} /\ link' \in {"none", "up"}
      /\ link' = "none" => pc' = "done"
      /\ faults' \subseteq Faults
  BY DEF TransportConnects, Fault, Faults, Typed, ClientTyped
<1>2. ClientTyped'
  BY <1>1 DEF Typed, ClientTyped
<1>3. LibraryTyped' /\ ServerTyped'
  BY <1>1 DEF Typed, LibraryTyped, ServerTyped
<1>4. Stages'
  BY <1>1 DEF Stages, Progress, Held
<1>5. QED
  BY <1>2, <1>3, <1>4 DEF Typed

LEMMA ConnectTyped ==
  ASSUME Typed, Stages, ircp_cli_connect
  PROVE  Typed' /\ Stages'
<1>1. /\ pc = "connect" /\ step = None /\ link # "none"
      /\ cli_sync_request(Connect, None, fd)
      /\ UNCHANGED <<pc, left, todo, reported, strayed, link, toClient, spc, srv>>
  BY DEF ircp_cli_connect
<1>2. MaySend(Connect, None, fd)
  BY VisitTypes DEF MaySend, Connect, Visit, Typed, LibraryTyped
<1>3. /\ step' = Connect /\ Connect \in Requests
      /\ LibraryTyped' /\ Held'
      /\ finished' \in BOOLEAN /\ success' \in BOOLEAN
      /\ faults' \subseteq Faults
  BY <1>1, <1>2, StartTyped
<1>4. ClientTyped'
  BY <1>1, <1>3 DEF Typed, ClientTyped
<1>5. ServerTyped'
  BY <1>1 DEF Typed, ServerTyped
<1>6. Progress'
  BY <1>1, <1>3 DEF Stages, Progress
<1>7. QED
  BY <1>3, <1>4, <1>5, <1>6 DEF Typed, Stages

LEMMA ArgumentVisits ==
  ASSUME NEW arg \in Nodes
  PROVE  /\ ircp_put(arg) \in Seq(Visits)
         /\ Chained(ircp_put(arg)) /\ Before(ircp_put(arg)) = <<>>
<1>1. CASE arg.kind = "file"
  <2> DEFINE v == Put(arg, <<>>)
  <2>1. v \in Visits /\ v.at = <<>> /\ After(v) = <<>>
    BY <1>1, PathEmpty DEF Put, Visit, Visits, VisitsOf, Proper, Files, After
  <2>2. ircp_put(arg) = <<v>>
    BY <1>1 DEF ircp_put
  <2> HIDE DEF v
  <2>3. <<v>> \in Seq(Visits) /\ Len(<<v>>) = 1 /\ Head(<<v>>) = v /\ <<v>>[1] = v /\ <<v>> # <<>>
    BY <2>1
  <2>4. Chained(<<v>>) /\ Before(<<v>>) = <<>>
    BY <2>1, <2>3 DEF Chained, Before
  <2>5. QED
    BY <2>2, <2>3, <2>4
<1>2. CASE arg.kind = "dir"
  <2> DEFINE v == [Down(arg, <<>>) EXCEPT !.checked = FALSE]
  <2>1. v \in Visits /\ v.at = <<>> /\ After(v) = <<>>
    <3> DEFINE d == Down(arg, <<>>)
    <3>1. arg \in Dirs
      BY <1>2 DEF Dirs
    <3>2. d \in [op : {"PUT", "DOWN", "UP", "SKIP"}, file : Nodes \union {None}, at : Paths,
                 checked : BOOLEAN]
          /\ d.op = "DOWN" /\ d.file = arg /\ d.at = <<>>
      BY PathEmpty DEF Down, Visit
    <3> HIDE DEF d
    <3>3. v \in [op : {"PUT", "DOWN", "UP", "SKIP"}, file : Nodes \union {None}, at : Paths,
                 checked : BOOLEAN]
          /\ v.op = "DOWN" /\ v.file = arg /\ v.at = <<>>
      BY <3>2 DEF d
    <3>4. QED
      BY <3>1, <3>3 DEF Visits, VisitsOf, Proper, After
  <2>2. ircp_put(arg) = <<v>>
    BY <1>2 DEF ircp_put
  <2> HIDE DEF v
  <2>3. <<v>> \in Seq(Visits) /\ Len(<<v>>) = 1 /\ Head(<<v>>) = v /\ <<v>>[1] = v /\ <<v>> # <<>>
    BY <2>1
  <2>4. Chained(<<v>>) /\ Before(<<v>>) = <<>>
    BY <2>1, <2>3 DEF Chained, Before
  <2>5. QED
    BY <2>2, <2>3, <2>4
<1>3. CASE arg.kind # "file" /\ arg.kind # "dir"
  <2>1. ircp_put(arg) = <<>>
    BY <1>3 DEF ircp_put
  <2>2. <<>> \in Seq(Visits) /\ Len(<<>>) = 0
    BY EmptySeq
  <2>3. QED
    BY <2>1, <2>2 DEF Chained, Before
<1>4. QED
  BY <1>1, <1>2, <1>3

LEMMA NextArgumentTyped ==
  ASSUME Typed, Stages, NextArgument
  PROVE  Typed' /\ Stages'
<1>1. /\ pc = "put" /\ step = None /\ left # <<>>
      /\ left' = Tail(left)
      /\ \E arg \in {Head(left), Here} : todo' = ircp_put(arg)
      /\ faults' \subseteq Faults
      /\ UNCHANGED <<pc, step, finished, success, fd, reported, strayed, object,
                 link, toServer, toClient, spc, srv>>
  BY DEF NextArgument, Fault, Faults, Typed, ClientTyped
<1>2. left \in Seq(Nodes) /\ Here \in Nodes
  BY ArgsAssumption DEF Typed, ClientTyped, Dirs
<1>3. Head(left) \in Nodes /\ Tail(left) \in Seq(Nodes)
  BY <1>1, <1>2, HeadTailProperties
<1>4. todo' \in Seq(Visits)
  BY <1>1, <1>2, <1>3, ArgumentVisits
<1>5. ClientTyped'
  BY <1>1, <1>3, <1>4 DEF Typed, ClientTyped
<1>6. LibraryTyped' /\ ServerTyped'
  BY <1>1 DEF Typed, LibraryTyped, ServerTyped
<1>7. Stages'
  BY <1>1 DEF Stages, Progress, Held
<1>8. QED
  BY <1>5, <1>6, <1>7 DEF Typed

LEMMA VisitedOut ==
  ASSUME Typed, todo # <<>>, NEW ok, Visited(Head(todo), ok)
  PROVE  /\ todo' = <<>> \/ todo' = Follows(Head(todo)) \o Tail(todo)
         /\ todo' \in Seq(Visits)
         /\ strayed' \in BOOLEAN /\ (strayed => strayed')
<1>1. todo \in Seq(Visits)
  BY DEF Typed, ClientTyped
<1>2. Follows(Head(todo)) \o Tail(todo) \in Seq(Visits)
  BY <1>1, WalkGoesOn
<1>3. todo' = <<>> \/ todo' = Follows(Head(todo)) \o Tail(todo)
  BY DEF Visited
<1>4. todo' \in Seq(Visits)
  BY <1>2, <1>3, EmptySeq
<1>5. QED
  BY <1>3, <1>4 DEF Visited

LEMMA HeadVisit ==
  ASSUME Typed, todo # <<>>
  PROVE  LET v == Head(todo)
         IN  /\ v \in Visits /\ v.at \in Paths /\ v.checked \in BOOLEAN /\ Proper(v) /\ v # None
             /\ v.op \in {"PUT", "DOWN", "UP", "SKIP"}
             /\ v.op # "SKIP" => v \in Requests
<1>1. Head(todo) \in Visits
  BY HeadTailProperties DEF Typed, ClientTyped
<1>2. Head(todo).op \in {"PUT", "DOWN", "UP", "SKIP"}
  BY <1>1 DEF Visits, VisitsOf
<1>3. QED
  BY <1>1, <1>2, VisitFields DEF Ops

(* The request of a visit may be sent.                                      *)
LEMMA VisitMaySend ==
  ASSUME Typed, todo # <<>>
  PROVE  LET v == Head(todo)
         IN  /\ v.op = "PUT" =>
                  MaySend(v, v.file.name, [file |-> v.file, next |-> 1])
             /\ v.op \in {"DOWN", "UP"} =>
                  MaySend(v, IF v.op = "DOWN" THEN v.file.name ELSE None, fd)
<1> DEFINE v == Head(todo)
<1>1. /\ Proper(v) /\ v.op \in {"PUT", "DOWN", "UP", "SKIP"}
      /\ v.op # "SKIP" => v \in Requests
  BY HeadVisit
<1>2. fd # None => fd \in Opens
  BY DEF Typed, LibraryTyped
<1> HIDE DEF v
<1>3. ASSUME v.op = "PUT"
      PROVE  MaySend(v, v.file.name, [file |-> v.file, next |-> 1])
  <2>1. v.file \in Files /\ v.file.chunks \in Nat /\ v.file.name \in Names
    BY <1>1, <1>3, ChunksOf DEF Proper
  <2>2. 1 \in 1..(v.file.chunks + 1)
    BY <2>1
  <2>3. [file |-> v.file, next |-> 1] \in Opens
    BY <2>1, <2>2 DEF Opens
  <2>4. QED
    BY <1>1, <1>3, <2>1, <2>3 DEF MaySend
<1>4. ASSUME v.op = "DOWN"
      PROVE  MaySend(v, v.file.name, fd)
  <2>1. v.file.name \in Names
    BY <1>1, <1>4 DEF Proper, Names
  <2>2. QED
    BY <1>1, <1>2, <1>4, <2>1 DEF MaySend
<1>5. ASSUME v.op = "UP"
      PROVE  MaySend(v, None, fd)
  BY <1>1, <1>2, <1>5 DEF MaySend
<1>6. QED
  BY <1>3, <1>4, <1>5 DEF v

LEMMA VisitTyped ==
  ASSUME Typed, Stages, ircp_visit
  PROVE  Typed' /\ Stages'
<1> DEFINE v == Head(todo)
<1>1. /\ pc = "put" /\ step = None /\ todo # <<>>
      /\ UNCHANGED <<pc, left, reported, link, toClient, spc, srv>>
  BY DEF ircp_visit
<1>2. link # "none"
  BY <1>1 DEF Stages, Progress
<1>3. ASSUME NEW name, NEW f, MaySend(v, name, f), cli_sync_request(v, name, f),
             UNCHANGED <<todo, strayed>>
      PROVE  Typed' /\ Stages'
  <2>1. /\ step' = v /\ v \in Requests
        /\ LibraryTyped' /\ Held'
        /\ finished' \in BOOLEAN /\ success' \in BOOLEAN
        /\ faults' \subseteq Faults
    <3> HIDE DEF v
    <3>1. QED
      BY <1>1, <1>2, <1>3, StartTyped
  <2>2. ClientTyped'
    BY <1>1, <1>3, <2>1 DEF Typed, ClientTyped
  <2>3. ServerTyped'
    BY <1>1 DEF Typed, ServerTyped
  <2>4. Progress'
    BY <1>1, <1>3, <2>1 DEF Stages, Progress
  <2>5. QED
    BY <2>1, <2>2, <2>3, <2>4 DEF Typed, Stages
<1>4. ASSUME NEW ok, Visited(v, ok), faults' \subseteq Faults,
             UNCHANGED <<step, finished, success, fd, object, toServer>>
      PROVE  Typed' /\ Stages'
  <2>1. todo' \in Seq(Visits) /\ strayed' \in BOOLEAN
    BY <1>1, <1>4, VisitedOut
  <2>2. ClientTyped'
    BY <1>1, <1>4, <2>1 DEF Typed, ClientTyped
  <2>3. LibraryTyped' /\ ServerTyped'
    BY <1>1, <1>4 DEF Typed, LibraryTyped, ServerTyped
  <2>4. Stages'
    BY <1>1, <1>4 DEF Stages, Progress, Held
  <2>5. QED
    BY <2>2, <2>3, <2>4 DEF Typed
<1>5. /\ v.op = "PUT" => MaySend(v, v.file.name, [file |-> v.file, next |-> 1])
      /\ v.op \in {"DOWN", "UP"} =>
           MaySend(v, IF v.op = "DOWN" THEN v.file.name ELSE None, fd)
  BY <1>1, VisitMaySend
<1>6. faults \subseteq Faults /\ (Fault("open") => faults' \subseteq Faults)
  BY DEF Typed, ClientTyped, Fault, Faults
<1>7. CASE /\ v.op = "PUT"
           /\ cli_sync_request(v, v.file.name, [file |-> v.file, next |-> 1])
           /\ UNCHANGED <<todo, strayed>>
  BY <1>3, <1>5, <1>7
<1>8. CASE /\ v.op = "PUT" \/ v.at # <<>>
           /\ Fault("open")
           /\ Visited(v, FALSE)
           /\ UNCHANGED <<step, finished, success, fd, object, toServer>>
  BY <1>4, <1>6, <1>8
<1>9. CASE /\ v.op \in {"DOWN", "UP"}
           /\ cli_sync_request(v, IF v.op = "DOWN" THEN v.file.name ELSE None, fd)
           /\ UNCHANGED <<todo, strayed>>
  BY <1>3, <1>5, <1>9
<1>10. CASE /\ v.op = "SKIP"
            /\ Visited(v, TRUE)
            /\ UNCHANGED <<step, finished, success, fd, object, toServer, faults>>
  BY <1>4, <1>6, <1>10
<1>11. QED
  BY <1>7, <1>8, <1>9, <1>10 DEF ircp_visit

LEMMA DisconnectTyped ==
  ASSUME Typed, Stages, ircp_cli_disconnect
  PROVE  Typed' /\ Stages'
<1>1. /\ pc = "put" /\ step = None /\ todo = <<>> /\ pc' = "disconnect"
      /\ cli_sync_request(Disconnect, None, fd)
      /\ UNCHANGED <<left, todo, reported, strayed, link, toClient, spc, srv>>
  BY DEF ircp_cli_disconnect
<1>2. MaySend(Disconnect, None, fd)
  BY VisitTypes DEF MaySend, Disconnect, Visit, Typed, LibraryTyped
<1>3. link # "none"
  BY <1>1 DEF Stages, Progress
<1>4. /\ step' = Disconnect /\ Disconnect \in Requests
      /\ LibraryTyped' /\ Held'
      /\ finished' \in BOOLEAN /\ success' \in BOOLEAN
      /\ faults' \subseteq Faults
  BY <1>1, <1>2, <1>3, StartTyped
<1>5. ClientTyped'
  BY <1>1, <1>4 DEF Typed, ClientTyped
<1>6. ServerTyped'
  BY <1>1 DEF Typed, ServerTyped
<1>7. Progress'
  <2>1. pc' = "disconnect" /\ step' = Disconnect /\ todo' = <<>> /\ link' # "none"
    BY <1>1, <1>3, <1>4
  <2>2. Disconnect # None
    BY VisitTypes, VisitFields
  <2>3. QED
    BY <2>1, <2>2 DEF Progress
<1>8. QED
  BY <1>4, <1>5, <1>6, <1>7 DEF Typed, Stages

(* The answers of the server.                                               *)
Continues == toClient = "CONTINUE" /\ Sends(object, None, fd)
Ended ==
  /\ toClient # "CONTINUE"
  /\ object' = None /\ finished' = TRUE /\ success' = (toClient = "SUCCESS")
  /\ UNCHANGED <<fd, toServer, faults>>

LEMMA HandleInputIs ==
  ASSUME Typed, Stages, HandleInput
  PROVE  /\ step # None /\ ~finished /\ toClient # None /\ toClient' = None
         /\ UNCHANGED <<pc, left, todo, step, reported, strayed, link, spc, srv>>
         /\ toServer = None /\ object # None /\ object \in Requests
         /\ link # "none" /\ pc # "done"
         /\ \/ /\ toClient = "CONTINUE" /\ object.op = "PUT" /\ MaySend(object, None, fd)
               /\ Packs(object, None, fd) \/ Fails(object, fd)
            \/ Ended
<1>1. /\ step # None /\ ~finished /\ toClient # None /\ toClient' = None
      /\ UNCHANGED <<pc, left, todo, step, reported, strayed, link, spc, srv>>
      /\ Continues \/ Ended
  BY DEF HandleInput, Continues, Ended
<1>2. toServer = None /\ object # None /\ object \in Requests /\ link # "none"
  BY <1>1 DEF Stages, Held, Progress, Typed, LibraryTyped
<1>3. pc # "done"
  BY <1>1 DEF Stages, Progress
<1>4. ASSUME Continues
      PROVE  /\ toClient = "CONTINUE" /\ object.op = "PUT" /\ MaySend(object, None, fd)
             /\ Packs(object, None, fd) \/ Fails(object, fd)
  <2>1. toClient = "CONTINUE" /\ object.op = "PUT" /\ faults \subseteq Faults
    BY <1>4 DEF Continues, Typed, LibraryTyped, ClientTyped
  <2>2. MaySend(object, None, fd)
    BY <1>2, <2>1 DEF MaySend, Typed, LibraryTyped
  <2>3. QED
    BY <1>4, <2>1, <2>2, SendsOut DEF Continues
<1>5. QED
  BY <1>1, <1>2, <1>3, <1>4

LEMMA HandleInputTyped ==
  ASSUME Typed, Stages, HandleInput
  PROVE  Typed' /\ Stages'
<1>1. /\ step # None /\ ~finished /\ toClient # None /\ toClient' = None
      /\ UNCHANGED <<pc, left, todo, step, reported, strayed, link, spc, srv>>
      /\ toServer = None /\ object # None /\ link # "none" /\ pc # "done"
      /\ \/ /\ MaySend(object, None, fd)
            /\ Packs(object, None, fd) \/ Fails(object, fd)
         \/ Ended
  BY HandleInputIs
<1>2. success \in BOOLEAN /\ faults \subseteq Faults
  BY DEF Typed, ClientTyped
<1>3. /\ LibraryTyped' /\ Held'
      /\ finished' \in BOOLEAN /\ success' \in BOOLEAN
      /\ faults' \subseteq Faults
  <2>1. CASE /\ MaySend(object, None, fd)
             /\ Packs(object, None, fd) \/ Fails(object, fd)
    BY <1>1, <1>2, <2>1, SendsTyped
  <2>2. CASE Ended
    <3>1. LibraryTyped'
      BY <1>1, <2>2, NoneIs DEF Ended, Typed, LibraryTyped
    <3>2. Held'
      BY <1>1, <2>2 DEF Ended, Stages, Held
    <3>3. QED
      BY <1>2, <2>2, <3>1, <3>2 DEF Ended
  <2>3. QED
    BY <1>1, <2>1, <2>2
<1>4. ClientTyped'
  BY <1>1, <1>3 DEF Typed, ClientTyped
<1>5. ServerTyped'
  BY <1>1 DEF Typed, ServerTyped
<1>6. Progress'
  BY <1>1 DEF Stages, Progress
<1>7. QED
  BY <1>3, <1>4, <1>5, <1>6 DEF Typed, Stages

(* cli_sync_request returns.                                                *)
LEMMA StepStage ==
  ASSUME Typed, Stages, step # None
  PROVE  /\ step \in Requests /\ step.op \in Ops /\ pc # "done" /\ link # "none"
         /\ step.op = "CONNECT" => pc = "connect" /\ todo = <<>> /\ step = Connect
         /\ step.op = "DISCONNECT" => pc = "disconnect" /\ todo = <<>> /\ step = Disconnect
         /\ step.op \in {"PUT", "DOWN", "UP"} =>
              pc = "put" /\ todo # <<>> /\ step = Head(todo)
<1>1. step \in Requests /\ pc \in {"connect", "put", "disconnect", "done"}
  BY DEF Typed, ClientTyped
<1>2. step.op \in Ops
  BY <1>1 DEF Requests, VisitsOf
<1>3. pc # "done" /\ link # "none"
  BY DEF Stages, Progress
<1>4. /\ pc = "connect" => step = Connect /\ step.op = "CONNECT" /\ todo = <<>>
      /\ pc = "disconnect" => step = Disconnect /\ step.op = "DISCONNECT" /\ todo = <<>>
      /\ pc = "put" => todo # <<>> /\ step = Head(todo)
  <2>1. /\ pc = "connect" => step = Connect
        /\ pc = "disconnect" => step = Disconnect
        /\ pc = "put" => todo # <<>> /\ step = Head(todo)
        /\ pc # "put" => todo = <<>>
    BY DEF Stages, Progress
  <2>2. Connect.op = "CONNECT" /\ Disconnect.op = "DISCONNECT"
    BY DEF Connect, Disconnect, Visit
  <2>3. QED
    BY <2>1, <2>2
<1>5. pc = "put" => step.op \in {"PUT", "DOWN", "UP", "SKIP"}
  BY <1>4, HeadVisit
<1>6. QED
  BY <1>1, <1>2, <1>3, <1>4, <1>5 DEF Ops

LEMMA ReturnsOut ==
  ASSUME Typed, Stages, step # None, NEW ok, Returns(ok)
  PROVE  /\ step' = None /\ UNCHANGED <<left, toServer, toClient, spc, srv>>
         /\ pc' \in {"connect", "put", "disconnect", "done"}
         /\ link' = link \/ (link' = "down" /\ pc' = "done")
         /\ fd' \in {fd, None}
         /\ todo' \in Seq(Visits) /\ strayed' \in BOOLEAN
         /\ \A v \in reported' : v \in Requests /\ v.op = "PUT"
         /\ Progress'
<1>0. /\ step \in Requests /\ step.op \in Ops /\ pc # "done" /\ link # "none"
      /\ step.op = "CONNECT" => pc = "connect" /\ todo = <<>> /\ step = Connect
      /\ step.op = "DISCONNECT" => pc = "disconnect" /\ todo = <<>> /\ step = Disconnect
      /\ step.op \in {"PUT", "DOWN", "UP"} =>
           pc = "put" /\ todo # <<>> /\ step = Head(todo)
  BY StepStage
<1>1. step' = None /\ UNCHANGED <<left, toServer, toClient, spc, srv>>
  BY DEF Returns
<1>2. /\ todo \in Seq(Visits) /\ strayed \in BOOLEAN /\ pc \in {"connect", "put", "disconnect", "done"}
      /\ \A v \in reported : v \in Requests /\ v.op = "PUT"
  BY DEF Typed, ClientTyped
<1>3. CASE step.op = "CONNECT"
  <2>1. /\ pc' = IF ok THEN "put" ELSE "done"
        /\ link' = IF ok THEN link ELSE "down"
        /\ UNCHANGED <<todo, fd, reported, strayed>>
    BY <1>3 DEF Returns
  <2>2. \/ pc' = "put" /\ link' = link
        \/ pc' = "done" /\ link' = "down"
    BY <2>1
  <2>3. Progress'
    BY <1>0, <1>1, <1>3, <2>1, <2>2 DEF Progress
  <2>4. QED
    BY <1>1, <1>2, <2>1, <2>2, <2>3
<1>4. CASE step.op = "DISCONNECT"
  <2>1. /\ pc' = "done" /\ link' = "down"
        /\ UNCHANGED <<todo, fd, reported, strayed>>
    BY <1>4 DEF Returns
  <2>2. Progress'
    BY <1>0, <1>1, <1>4, <2>1 DEF Progress
  <2>3. QED
    BY <1>1, <1>2, <2>1, <2>2
<1>5. CASE step.op \in {"PUT", "DOWN", "UP"}
  <2>1. /\ Visited(step, ok) /\ UNCHANGED <<pc, link>>
        /\ fd' \in {fd, None}
        /\ reported' \subseteq reported \union {step}
        /\ step.op # "PUT" => reported' = reported
    <3>1. CASE step.op = "PUT"
      <4>1. /\ fd' = None
            /\ reported' = IF ok THEN reported \union {step} ELSE reported
            /\ Visited(step, ok)
            /\ UNCHANGED <<pc, link>>
        BY <3>1 DEF Returns
      <4>2. QED
        BY <3>1, <4>1
    <3>2. CASE step.op \in {"DOWN", "UP"}
      BY <3>2 DEF Returns
    <3>3. QED
      BY <1>5, <3>1, <3>2
  <2>2. todo' \in Seq(Visits) /\ strayed' \in BOOLEAN
    BY <1>0, <1>5, <2>1, VisitedOut
  <2>3. \A v \in reported' : v \in Requests /\ v.op = "PUT"
    BY <1>0, <1>2, <1>5, <2>1
  <2>4. Progress'
    BY <1>0, <1>1, <1>5, <2>1 DEF Progress
  <2>5. QED
    BY <1>1, <1>2, <2>1, <2>2, <2>3, <2>4
<1>6. QED
  BY <1>0, <1>3, <1>4, <1>5 DEF Ops

LEMMA DoneTyped ==
  ASSUME Typed, Stages, Done
  PROVE  Typed' /\ Stages'
<1>1. step # None /\ finished /\ Returns(success) /\ UNCHANGED <<finished, success, object, faults>>
  BY DEF Done
<1>2. /\ step' = None /\ UNCHANGED <<left, toServer, toClient, spc, srv>>
      /\ pc' \in {"connect", "put", "disconnect", "done"}
      /\ link' = link \/ (link' = "down" /\ pc' = "done")
      /\ fd' \in {fd, None}
      /\ todo' \in Seq(Visits) /\ strayed' \in BOOLEAN
      /\ \A v \in reported' : v \in Requests /\ v.op = "PUT"
      /\ Progress'
  BY <1>1, ReturnsOut
<1>3. object = None /\ toServer = None /\ toClient = None
  BY <1>1 DEF Stages, Held
<1>4. ClientTyped'
  BY <1>1, <1>2 DEF Typed, ClientTyped
<1>5. LibraryTyped'
  BY <1>1, <1>2 DEF Typed, LibraryTyped
<1>6. ServerTyped'
  BY <1>2 DEF Typed, ServerTyped
<1>7. Held'
  BY <1>1, <1>2, <1>3 DEF Held
<1>8. QED
  BY <1>2, <1>4, <1>5, <1>6, <1>7 DEF Typed, Stages

LEMMA TimesOutTyped ==
  ASSUME Typed, Stages, TimesOut
  PROVE  Typed' /\ Stages' /\ "timeout" \in faults' /\ faults \subseteq faults'
<1>1. step # None /\ Returns(FALSE) /\ UNCHANGED <<finished, success, object>>
      /\ link = "up" /\ toClient = None
  BY DEF TimesOut
<1>2. /\ step' = None /\ UNCHANGED <<left, toServer, toClient, spc, srv>>
      /\ pc' \in {"connect", "put", "disconnect", "done"}
      /\ link' = link \/ (link' = "down" /\ pc' = "done")
      /\ fd' \in {fd, None}
      /\ todo' \in Seq(Visits) /\ strayed' \in BOOLEAN
      /\ \A v \in reported' : v \in Requests /\ v.op = "PUT"
      /\ Progress'
  BY <1>1, ReturnsOut
<1>3. "timeout" \in faults' /\ faults \subseteq faults' /\ faults' \subseteq Faults
  BY DEF TimesOut, Fault, Faults, Typed, ClientTyped
<1>4. ClientTyped'
  BY <1>1, <1>2, <1>3 DEF Typed, ClientTyped
<1>5. LibraryTyped'
  BY <1>1, <1>2 DEF Typed, LibraryTyped
<1>6. ServerTyped'
  BY <1>2 DEF Typed, ServerTyped
<1>7. Held'
  BY <1>1, <1>2 DEF Stages, Held
<1>8. QED
  BY <1>2, <1>3, <1>4, <1>5, <1>6, <1>7 DEF Typed, Stages

LEMMA LinkLostTyped ==
  ASSUME Typed, Stages, LinkLost
  PROVE  Typed' /\ Stages'
<1>1. /\ step # None /\ Returns(FALSE) /\ link = "down" /\ toClient = None
      /\ object' = None /\ finished' = TRUE /\ success' = FALSE /\ UNCHANGED faults
  BY DEF LinkLost, Linkerr
<1>2. /\ step' = None /\ UNCHANGED <<left, toServer, toClient, spc, srv>>
      /\ pc' \in {"connect", "put", "disconnect", "done"}
      /\ link' = link \/ (link' = "down" /\ pc' = "done")
      /\ fd' \in {fd, None}
      /\ todo' \in Seq(Visits) /\ strayed' \in BOOLEAN
      /\ \A v \in reported' : v \in Requests /\ v.op = "PUT"
      /\ Progress'
  BY <1>1, ReturnsOut
<1>3. toServer = None
  BY <1>1, StepStage DEF Stages, Held
<1>4. ClientTyped'
  BY <1>1, <1>2 DEF Typed, ClientTyped
<1>5. LibraryTyped'
  BY <1>1, <1>2, <1>3, NoneIs DEF Typed, LibraryTyped
<1>6. ServerTyped'
  BY <1>2 DEF Typed, ServerTyped
<1>7. Held'
  BY <1>1, <1>2, <1>3 DEF Held
<1>8. QED
  BY <1>2, <1>4, <1>5, <1>6, <1>7 DEF Typed, Stages

(* The server's steps.                                                      *)
LEMMA Wellformed1 ==
  ASSUME Typed, Stages, toServer # None
  PROVE  Wellformed(toServer) /\ object # None /\ object \in Requests /\ toServer.op = object.op
<1>1. object # None /\ object \in Requests
  BY DEF Stages, Held, Typed, LibraryTyped
<1>2. object.op = "DOWN" => object.file.name \in Names
  BY <1>1 DEF Requests, VisitsOf, Proper, Names
<1>3. QED
  BY <1>1, <1>2 DEF Typed, LibraryTyped, Wellformed

LEMMA ReceivesShape ==
  ASSUME Typed, Stages, Receives
  PROVE  /\ ~srv.finished /\ toServer # None /\ toServer' = None
         /\ UNCHANGED <<clientVars, object, link, spc>>
         /\ object # None /\ object \in Requests /\ toServer.op = object.op
         /\ srv' \in Servers /\ srv'.rsp = "SUCCESS" /\ srv'.cmd \in {None, "PUT"}
         /\ toClient' \in Codes /\ (toClient' = "CONTINUE" => object.op = "PUT")
         /\ faults \subseteq faults' /\ faults' \subseteq faults \union {"create", "write"}
         /\ faults' \subseteq Faults
         /\ Kept(srv, srv')
         /\ object.op # "PUT" =>
              srv'.inbox = srv.inbox /\ srv'.fd = srv.fd /\ srv'.cmd = None
         /\ \/ srv'.finished
            \/ /\ object.op \notin {"UP", "DOWN"} => srv'.cwd = srv.cwd
               /\ object.op = "DOWN" =>
                    srv'.cwd = Append(srv.cwd, toServer.name) /\ toClient' = "SUCCESS"
               /\ object.op = "UP" /\ srv.cwd # <<>> =>
                    srv'.cwd = Front(srv.cwd) /\ toClient' = "SUCCESS"
<1>1. /\ ~srv.finished /\ toServer # None /\ toServer' = None
      /\ UNCHANGED <<clientVars, object, link, spc>>
      /\ \/ Mistaken
         \/ \E creates, writes \in BOOLEAN : Taking(toServer, creates, writes)
  BY ReceivesIs
<1>2. Wellformed(toServer) /\ object # None /\ object \in Requests /\ toServer.op = object.op
  BY <1>1, Wellformed1
<1>3. srv \in Servers /\ srv.rsp = "SUCCESS" /\ srv.cmd \in {None, "PUT"} /\ faults \subseteq Faults
      /\ Len(srv.inbox) \in Nat
  BY ServerFields DEF Typed, ServerTyped, ClientTyped
<1>4. CASE Mistaken
  <2>1. /\ toClient' = "BAD_REQUEST" /\ srv' = [ReqDone(srv) EXCEPT !.finished = TRUE]
        /\ faults' = faults
    BY <1>4 DEF Mistaken
  <2>2. /\ srv' \in Servers /\ srv'.finished /\ srv'.rsp = "SUCCESS"
        /\ srv'.cmd = None /\ srv'.fd = srv.fd /\ srv'.inbox = srv.inbox
    BY <1>3, <2>1, DoneFields
  <2>3. Kept(srv, srv')
    BY <1>3, <2>2 DEF Kept
  <2>4. QED
    BY <1>1, <1>2, <1>3, <2>1, <2>2, <2>3 DEF Codes
<1>5. ASSUME NEW creates \in BOOLEAN, NEW writes \in BOOLEAN, Taking(toServer, creates, writes)
      PROVE  /\ Shaped(toServer)
             /\ faults \subseteq faults' /\ faults' \subseteq faults \union {"create", "write"}
             /\ faults' \subseteq Faults
  <2>1. Faulted(toServer, Joined(toServer), creates, writes)
    BY <1>5 DEF Taking
  <2>2. /\ faults \subseteq faults' /\ faults' \subseteq faults \union {"create", "write"}
        /\ faults' \subseteq Faults
    BY <1>3, <2>1, FaultedFaults
  <2>3. Shaped(toServer)
    BY <1>2, <1>3, <1>5, TakingShape
  <2>4. QED
    BY <2>2, <2>3
<1>6. QED
  <2>1. CASE Mistaken
    BY <1>4, <2>1
  <2>2. CASE \E creates, writes \in BOOLEAN : Taking(toServer, creates, writes)
    <3>1. PICK creates \in BOOLEAN, writes \in BOOLEAN : Taking(toServer, creates, writes)
      BY <2>2
    <3>2. /\ Shaped(toServer)
          /\ faults \subseteq faults' /\ faults' \subseteq faults \union {"create", "write"}
          /\ faults' \subseteq Faults
      BY <1>5, <3>1
    <3>3. QED
      BY <1>1, <1>2, <3>2 DEF Shaped
  <2>3. QED
    BY <1>1, <2>1, <2>2

LEMMA ReceivesTyped ==
  ASSUME Typed, Stages, Receives
  PROVE  Typed' /\ Stages'
<1>1. /\ toServer # None /\ toServer' = None
      /\ UNCHANGED <<clientVars, object, link, spc>>
      /\ object # None
      /\ srv' \in Servers /\ srv'.rsp = "SUCCESS" /\ srv'.cmd \in {None, "PUT"}
      /\ toClient' \in Codes /\ (toClient' = "CONTINUE" => object.op = "PUT")
      /\ faults' \subseteq Faults
  BY ReceivesShape
<1>2. ClientTyped'
  BY <1>1 DEF Typed, ClientTyped, clientVars
<1>3. LibraryTyped'
  BY <1>1 DEF Typed, LibraryTyped, clientVars
<1>4. ServerTyped'
  BY <1>1 DEF ServerTyped
<1>5. Stages'
  BY <1>1 DEF Stages, Progress, Held, clientVars
<1>6. QED
  BY <1>2, <1>3, <1>4, <1>5 DEF Typed

LEMMA ServerEndsTyped ==
  ASSUME Typed, Stages, ServerEnds
  PROVE  Typed' /\ Stages'
<1>1. /\ spc' = "ended" /\ toServer' = None
      /\ link' = IF link = "up" THEN "down" ELSE link
      /\ UNCHANGED <<clientVars, object, toClient, srv, faults>>
  BY DEF ServerEnds
<1>2. ClientTyped'
  BY <1>1 DEF Typed, ClientTyped, clientVars
<1>3. LibraryTyped' /\ ServerTyped'
  BY <1>1 DEF Typed, LibraryTyped, ServerTyped, clientVars
<1>4. Stages'
  BY <1>1 DEF Stages, Progress, Held, clientVars
<1>5. QED
  BY <1>2, <1>3, <1>4 DEF Typed

LEMMA LinkBreaksTyped ==
  ASSUME Typed, Stages, LinkBreaks
  PROVE  Typed' /\ Stages'
<1>1. /\ toServer' = None /\ toClient' = None /\ link' = "down"
      /\ UNCHANGED <<clientVars, object, spc, srv>>
      /\ faults' \subseteq Faults
  BY DEF LinkBreaks, Fault, Faults, Typed, ClientTyped
<1>2. ClientTyped'
  BY <1>1 DEF Typed, ClientTyped, clientVars
<1>3. LibraryTyped' /\ ServerTyped'
  BY <1>1, NoneIs DEF Typed, LibraryTyped, ServerTyped, clientVars
<1>4. Stages'
  BY <1>1 DEF Stages, Progress, Held, clientVars
<1>5. QED
  BY <1>2, <1>3, <1>4 DEF Typed

LEMMA NextTyped ==
  ASSUME Typed, Stages, [Next]_vars
  PROVE  Typed' /\ Stages'
<1>1. CASE UNCHANGED vars
  <2>1. ClientTyped' /\ LibraryTyped' /\ ServerTyped'
    BY <1>1 DEF Typed, ClientTyped, LibraryTyped, ServerTyped, vars, clientVars
  <2>2. Stages'
    BY <1>1 DEF Stages, Progress, Held, vars, clientVars
  <2>3. QED
    BY <2>1, <2>2 DEF Typed
<1>2. CASE Next
  BY <1>2, TransportConnectsTyped, ConnectTyped, NextArgumentTyped, VisitTyped,
     DisconnectTyped, HandleInputTyped, DoneTyped, LinkLostTyped, ReceivesTyped,
     ServerEndsTyped, TimesOutTyped, LinkBreaksTyped DEF Next, Client, Server
<1>3. QED
  BY <1>1, <1>2

LEMMA TypedSpec == Spec => [](Typed /\ Stages)
<1>1. (Typed /\ Stages) /\ [Next]_vars => (Typed /\ Stages)'
  BY NextTyped
<1>2. QED
  BY <1>1, InitTyped, PTL DEF Spec

(* TypeOK: the two ends and the messages between them hold what they may,  *)
(* for any file system and any arguments, and the directory of the server  *)
(* is as deep below the inbox as ircp_srv_setpath counts.                  *)
THEOREM TypeCorrect == Spec => []TypeOK
<1>1. Typed => TypeOK
  <2> SUFFICES ASSUME Typed
               PROVE  TypeOK
    OBVIOUS
  <2>1. /\ pc \in {"connect", "put", "disconnect", "done"}
        /\ link \in {"none", "up", "down"}
        /\ spc \in {"running", "ended"}
        /\ finished \in BOOLEAN /\ success \in BOOLEAN /\ strayed \in BOOLEAN
        /\ faults \subseteq Faults
    BY DEF Typed, ClientTyped
  <2>2. /\ step # None => step.op \in Ops
        /\ object # None => object.op \in Ops
    BY DEF Typed, ClientTyped, LibraryTyped, Requests, VisitsOf
  <2>3. /\ fd # None => fd.next \in 1..(fd.file.chunks + 1)
        /\ toServer # None => toServer.op \in Ops
        /\ toClient \in Codes \union {None}
    BY DEF Typed, LibraryTyped, Opens, Packets
  <2>4. srv.fd \in 0..Len(srv.inbox) /\ srv.dirdepth = Len(srv.cwd)
    BY ServerFields DEF Typed, ServerTyped
  <2>5. QED
    BY <2>1, <2>2, <2>3, <2>4 DEF TypeOK
<1>2. QED
  BY <1>1, TypedSpec, PTL

-----------------------------------------------------------------------------
(* The request in progress is the one ircp waits for, until one times out.  *)

LEMMA StartGrows ==
  ASSUME Typed, Stages, NEW r, NEW name, NEW f, MaySend(r, name, f),
         cli_sync_request(r, name, f)
  PROVE  faults \subseteq faults'
<1>1. Refused(r, f) \/ (object = None /\ (Packs(r, name, f) \/ Fails(r, f)))
  BY StartOut DEF Typed, ClientTyped
<1>2. QED
  BY <1>1 DEF Refused, Packs, Fails

LEMMA VisitCases ==
  ASSUME Typed, Stages, ircp_visit
  PROVE  /\ pc = "put" /\ step = None /\ todo # <<>> /\ link # "none"
         /\ UNCHANGED <<pc, left, reported, link, toClient, spc, srv>>
         /\ \/ /\ Head(todo).op = "PUT" /\ UNCHANGED <<todo, strayed>>
               /\ LET v == Head(todo)
                      f == [file |-> v.file, next |-> 1]
                  IN  MaySend(v, v.file.name, f) /\ cli_sync_request(v, v.file.name, f)
            \/ /\ Head(todo).op \in {"DOWN", "UP"} /\ UNCHANGED <<todo, strayed>>
               /\ LET v == Head(todo)
                      name == IF v.op = "DOWN" THEN v.file.name ELSE None
                  IN  MaySend(v, name, fd) /\ cli_sync_request(v, name, fd)
            \/ /\ Head(todo).op = "PUT" \/ Head(todo).at # <<>>
               /\ Fault("open") /\ Visited(Head(todo), FALSE)
               /\ UNCHANGED <<step, finished, success, fd, object, toServer>>
            \/ /\ Head(todo).op = "SKIP" /\ Visited(Head(todo), TRUE)
               /\ UNCHANGED <<step, finished, success, fd, object, toServer, faults>>
<1> DEFINE v == Head(todo)
<1>1. /\ pc = "put" /\ step = None /\ todo # <<>>
      /\ UNCHANGED <<pc, left, reported, link, toClient, spc, srv>>
      /\ link # "none"
  BY DEF ircp_visit, Stages, Progress
<1>2. /\ v.op = "PUT" => MaySend(v, v.file.name, [file |-> v.file, next |-> 1])
      /\ v.op \in {"DOWN", "UP"} =>
           MaySend(v, IF v.op = "DOWN" THEN v.file.name ELSE None, fd)
  BY <1>1, VisitMaySend
<1>3. \/ /\ v.op = "PUT" /\ UNCHANGED <<todo, strayed>>
         /\ cli_sync_request(v, v.file.name, [file |-> v.file, next |-> 1])
      \/ /\ v.op \in {"DOWN", "UP"} /\ UNCHANGED <<todo, strayed>>
         /\ cli_sync_request(v, IF v.op = "DOWN" THEN v.file.name ELSE None, fd)
      \/ /\ v.op = "PUT" \/ v.at # <<>>
         /\ Fault("open") /\ Visited(v, FALSE)
         /\ UNCHANGED <<step, finished, success, fd, object, toServer>>
      \/ /\ v.op = "SKIP" /\ Visited(v, TRUE)
         /\ UNCHANGED <<step, finished, success, fd, object, toServer, faults>>
  BY DEF ircp_visit
<1>4. QED
  BY <1>1, <1>2, <1>3

LEMMA ConnectCase ==
  ASSUME Typed, Stages, ircp_cli_connect
  PROVE  /\ pc = "connect" /\ step = None /\ link # "none" /\ todo = <<>>
         /\ MaySend(Connect, None, fd) /\ cli_sync_request(Connect, None, fd)
         /\ UNCHANGED <<pc, left, todo, reported, strayed, link, toClient, spc, srv>>
<1>1. /\ pc = "connect" /\ step = None /\ link # "none"
      /\ cli_sync_request(Connect, None, fd)
      /\ UNCHANGED <<pc, left, todo, reported, strayed, link, toClient, spc, srv>>
  BY DEF ircp_cli_connect
<1>2. MaySend(Connect, None, fd)
  BY VisitTypes DEF MaySend, Connect, Visit, Typed, LibraryTyped
<1>3. QED
  BY <1>1, <1>2 DEF Stages, Progress

LEMMA DisconnectCase ==
  ASSUME Typed, Stages, ircp_cli_disconnect
  PROVE  /\ pc = "put" /\ step = None /\ todo = <<>> /\ pc' = "disconnect" /\ link # "none"
         /\ MaySend(Disconnect, None, fd) /\ cli_sync_request(Disconnect, None, fd)
         /\ UNCHANGED <<left, todo, reported, strayed, link, toClient, spc, srv>>
<1>1. /\ pc = "put" /\ step = None /\ todo = <<>> /\ pc' = "disconnect"
      /\ cli_sync_request(Disconnect, None, fd)
      /\ UNCHANGED <<left, todo, reported, strayed, link, toClient, spc, srv>>
  BY DEF ircp_cli_disconnect
<1>2. MaySend(Disconnect, None, fd)
  BY VisitTypes DEF MaySend, Disconnect, Visit, Typed, LibraryTyped
<1>3. QED
  BY <1>1, <1>2 DEF Stages, Progress

LEMMA ReturnsGrows ==
  ASSUME Typed, Stages, step # None, NEW ok, Returns(ok)
  PROVE  strayed => strayed'
<1>1. step.op \in Ops /\ (step.op \in {"PUT", "DOWN", "UP"} => step = Head(todo))
  BY StepStage
<1>2. CASE step.op \in {"CONNECT", "DISCONNECT"}
  BY <1>2 DEF Returns
<1>3. CASE step.op \in {"PUT", "DOWN", "UP"}
  <2>1. Visited(step, ok)
    BY <1>3 DEF Returns
  <2>2. QED
    BY <2>1 DEF Visited
<1>4. QED
  BY <1>1, <1>2, <1>3 DEF Ops

LEMMA Grows ==
  ASSUME Typed, Stages, [Next]_vars
  PROVE  faults \subseteq faults' /\ (strayed => strayed')
<1>1. CASE UNCHANGED vars
  BY <1>1 DEF vars, clientVars
<1>2. CASE TransportConnects
  BY <1>2 DEF TransportConnects, Fault
<1>3. CASE ircp_cli_connect
  BY <1>3, ConnectCase, StartGrows
<1>4. CASE NextArgument
  BY <1>4 DEF NextArgument, Fault
<1>5. CASE ircp_visit
  <2>1. faults \subseteq faults'
    <3>1. CASE \E name, f : MaySend(Head(todo), name, f) /\ cli_sync_request(Head(todo), name, f)
      BY <3>1, StartGrows
    <3>2. CASE Fault("open") \/ UNCHANGED faults
      BY <3>2 DEF Fault
    <3>3. QED
      BY <1>5, <3>1, <3>2, VisitCases
  <2>2. strayed => strayed'
    BY <1>5, VisitCases DEF Visited
  <2>3. QED
    BY <2>1, <2>2
<1>6. CASE ircp_cli_disconnect
  BY <1>6, DisconnectCase, StartGrows
<1>7. CASE HandleInput
  <2>1. UNCHANGED strayed
        /\ (Packs(object, None, fd) \/ Fails(object, fd) \/ Ended)
    BY <1>7, HandleInputIs
  <2>2. faults \subseteq faults'
    BY <2>1 DEF Packs, Fails, Ended
  <2>3. QED
    BY <2>1, <2>2
<1>8. CASE Done
  BY <1>8, ReturnsGrows DEF Done
<1>9. CASE LinkLost
  BY <1>9, ReturnsGrows DEF LinkLost
<1>10. CASE Receives
  BY <1>10, ReceivesShape DEF clientVars
<1>11. CASE ServerEnds
  BY <1>11 DEF ServerEnds, clientVars
<1>12. CASE TimesOut
  <2>1. faults \subseteq faults'
    BY <1>12 DEF TimesOut, Fault
  <2>2. QED
    BY <1>12, <2>1, ReturnsGrows DEF TimesOut
<1>13. CASE LinkBreaks
  BY <1>13 DEF LinkBreaks, Fault, clientVars
<1>14. QED
  BY <1>1, <1>2, <1>3, <1>4, <1>5, <1>6, <1>7, <1>8, <1>9, <1>10, <1>11, <1>12, <1>13
     DEF Next, Client, Server

LEMMA InitSynced == Init => Synced
BY DEF Init, Synced

(* After a call of the library for a request.                               *)
LEMMA StartSynced ==
  ASSUME Typed, Stages, Synced, "timeout" \notin faults, step = None,
         NEW r, NEW name, NEW f, MaySend(r, name, f), cli_sync_request(r, name, f),
         toClient' = toClient, link' = link
  PROVE  Synced' /\ step' = r /\ r # None /\ object = None
         /\ (Packs(r, name, f) \/ Fails(r, f))
<1>1. r # None
  BY VisitFields DEF MaySend
<1>2. object = None
  BY DEF Synced
<1>3. step' = r /\ (Packs(r, name, f) \/ Fails(r, f))
  BY <1>2, StartOut DEF Refused, Typed, ClientTyped
<1>4. toServer = None
  BY <1>2 DEF Stages, Held
<1>5. CASE Packs(r, name, f)
  BY <1>1, <1>2, <1>3, <1>5 DEF Packs, Synced
<1>6. CASE Fails(r, f)
  BY <1>1, <1>2, <1>3, <1>4, <1>6 DEF Fails, Synced
<1>7. QED
  BY <1>1, <1>2, <1>3, <1>5, <1>6

LEMMA NextSynced ==
  ASSUME Typed, Stages, Synced, [Next]_vars
  PROVE  Synced'
<1> SUFFICES ASSUME "timeout" \notin faults'
             PROVE  Synced'
  BY DEF Synced
<1>0. "timeout" \notin faults
  BY Grows
<1>a. /\ object = IF step = None \/ finished THEN None ELSE step
      /\ link # "up" => toServer = None
      /\ link = "up" /\ object # None => toServer # None \/ toClient # None
  BY <1>0 DEF Synced
<1>1. CASE UNCHANGED vars
  BY <1>1 DEF vars, clientVars, Synced
<1>2. CASE TransportConnects
  BY <1>2, <1>a DEF TransportConnects, Synced, Stages, Held
<1>3. CASE ircp_cli_connect
  <2>1. /\ step = None /\ MaySend(Connect, None, fd) /\ cli_sync_request(Connect, None, fd)
        /\ toClient' = toClient /\ link' = link
    BY <1>3, ConnectCase
  <2>2. QED
    BY <1>0, <2>1, StartSynced
<1>4. CASE NextArgument
  BY <1>4, <1>a DEF NextArgument, Synced
<1>5. CASE ircp_visit
  <2>1. step = None /\ toClient' = toClient /\ link' = link
    BY <1>5, VisitCases
  <2>2. CASE \E name, f : MaySend(Head(todo), name, f) /\ cli_sync_request(Head(todo), name, f)
    BY <1>0, <2>1, <2>2, StartSynced
  <2>3. CASE UNCHANGED <<step, finished, success, fd, object, toServer>>
    BY <1>a, <2>1, <2>3 DEF Synced
  <2>4. QED
    BY <1>5, <2>2, <2>3, VisitCases
<1>6. CASE ircp_cli_disconnect
  <2>1. /\ step = None /\ MaySend(Disconnect, None, fd) /\ cli_sync_request(Disconnect, None, fd)
        /\ toClient' = toClient /\ link' = link
    BY <1>6, DisconnectCase
  <2>2. QED
    BY <1>0, <2>1, StartSynced
<1>7. CASE HandleInput
  <2>1. /\ step # None /\ ~finished /\ toServer = None /\ object # None
        /\ UNCHANGED <<step, link>>
        /\ (Packs(object, None, fd) \/ Fails(object, fd) \/ Ended)
    BY <1>7, HandleInputIs
  <2>2. object = step
    BY <1>a, <2>1
  <2>3. CASE Packs(object, None, fd)
    BY <2>1, <2>2, <2>3 DEF Packs, Synced
  <2>4. CASE Fails(object, fd)
    BY <2>1, <2>2, <2>4 DEF Fails, Synced
  <2>5. CASE Ended
    BY <2>1, <2>2, <2>5 DEF Ended, Synced
  <2>6. QED
    BY <2>1, <2>3, <2>4, <2>5
<1>8. CASE Done
  <2>1. step # None /\ finished /\ Returns(success) /\ object' = object
    BY <1>8 DEF Done
  <2>2. step' = None /\ toServer' = toServer /\ toClient' = toClient
    BY <2>1, ReturnsOut
  <2>3. object = None /\ toServer = None
    BY <2>1 DEF Stages, Held
  <2>4. QED
    BY <2>1, <2>2, <2>3 DEF Synced
<1>9. CASE LinkLost
  <2>1. step # None /\ Returns(FALSE) /\ object' = None /\ link = "down"
    BY <1>9 DEF LinkLost, Linkerr
  <2>2. step' = None /\ toServer' = toServer
    BY <2>1, ReturnsOut
  <2>3. toServer = None
    BY <1>a, <2>1
  <2>4. QED
    BY <2>1, <2>2, <2>3 DEF Synced
<1>10. CASE Receives
  <2>1. /\ toServer' = None /\ toClient' \in Codes
        /\ UNCHANGED <<clientVars, object, link>>
    BY <1>10, ReceivesShape
  <2>2. toClient' # None
    BY <2>1, NoneIs
  <2>3. QED
    BY <1>a, <2>1, <2>2 DEF Synced, clientVars
<1>11. CASE ServerEnds
  <2>1. /\ toServer' = None /\ link' # "up"
        /\ UNCHANGED <<clientVars, object>>
    BY <1>11 DEF ServerEnds
  <2>2. QED
    BY <1>a, <2>1 DEF Synced, clientVars
<1>12. CASE TimesOut
  BY <1>12, TimesOutTyped
<1>13. CASE LinkBreaks
  <2>1. /\ toServer' = None /\ link' # "up"
        /\ UNCHANGED <<clientVars, object>>
    BY <1>13 DEF LinkBreaks
  <2>2. QED
    BY <1>a, <2>1 DEF Synced, clientVars
<1>14. QED
  BY <1>1, <1>2, <1>3, <1>4, <1>5, <1>6, <1>7, <1>8, <1>9, <1>10, <1>11, <1>12, <1>13
     DEF Next, Client, Server

-----------------------------------------------------------------------------
(* The server is where the client's walk is.                                *)

Placed ==
  /\ Chained(todo)
  /\ srv.cwd = IF step = None \/ toServer # None THEN Before(todo) ELSE Reaches(step)
  /\ (step # None /\ step.op \in {"DOWN", "UP"}) =>
       (toClient # None => toClient = "SUCCESS") /\ (finished => success)

LEMMA NoWalk == Chained(<<>>) /\ Before(<<>>) = <<>>
<1>1. Len(<<>>) = 0
  OBVIOUS
<1>2. QED
  BY <1>1 DEF Chained, Before

LEMMA InitPlace == Init => Place
<1> SUFFICES ASSUME Init
             PROVE  Place
  OBVIOUS
<1>1. srv.cwd = <<>> /\ todo = <<>> /\ step = None
  BY DEF Init
<1>2. QED
  BY <1>1, NoWalk DEF Place

LEMMA StartPlace ==
  ASSUME Typed, Stages, Synced, "timeout" \notin faults, step = None, link = "up", Placed,
         NEW r, NEW name, NEW f, MaySend(r, name, f), cli_sync_request(r, name, f),
         r.op = "PUT" => r.at = Before(todo),
         toClient' = toClient, link' = link, todo' = todo, srv' = srv
  PROVE  Placed'
<1>1. /\ step' = r /\ r # None /\ object = None
      /\ (Packs(r, name, f) \/ Fails(r, f))
  BY StartSynced
<1>2. toServer = None /\ toClient' = None
  BY <1>1 DEF Stages, Held
<1>3. Chained(todo) /\ srv.cwd = Before(todo)
  BY DEF Placed
<1>4. CASE Packs(r, name, f)
  <2>1. toServer' # None /\ finished' = FALSE
    BY <1>4 DEF Packs
  <2>2. QED
    BY <1>1, <1>2, <1>3, <2>1 DEF Placed
<1>5. CASE Fails(r, f)
  <2>1. toServer' = None /\ r.op = "PUT"
    BY <1>2, <1>5 DEF Fails
  <2>2. Reaches(r) = r.at
    BY <2>1 DEF Reaches, After
  <2>3. QED
    BY <1>1, <1>2, <1>3, <2>1, <2>2 DEF Placed
<1>6. QED
  BY <1>1, <1>4, <1>5

LEMMA AtHead ==
  ASSUME NEW w, w # <<>>
  PROVE  Before(w) = Head(w).at
BY DEF Before

LEMMA TrustedBefore ==
  ASSUME Typed, Stages, [Next]_vars, Trusted'
  PROVE  Trusted
<1>1. "timeout" \notin faults /\ ~strayed
  BY Grows DEF Trusted
<1>2. ~srv.finished
  <2>1. Receives \/ srv' = srv
    BY ReturnsOut, HandleInputIs, VisitCases, ConnectCase, DisconnectCase
       DEF Next, Client, Server, TransportConnects, NextArgument, Done, LinkLost, TimesOut,
           ServerEnds, LinkBreaks, vars
  <2>2. QED
    BY <2>1, ReceivesShape DEF Trusted
<1>3. link # "down"
  <2>1. TransportConnects \/ link' = link \/ link' = "down"
    <3>1. ASSUME UNCHANGED vars \/ NextArgument \/ ServerEnds \/ LinkBreaks
          PROVE  link' = link \/ link' = "down"
      BY <3>1 DEF vars, NextArgument, ServerEnds, LinkBreaks
    <3>2. ASSUME ircp_cli_connect \/ ircp_visit \/ ircp_cli_disconnect \/ HandleInput \/ Receives
          PROVE  link' = link
      BY <3>2, ConnectCase, VisitCases, DisconnectCase, HandleInputIs, ReceivesShape
    <3>3. ASSUME Done \/ LinkLost \/ TimesOut
          PROVE  link' = link \/ link' = "down"
      BY <3>3, ReturnsOut DEF Done, LinkLost, TimesOut
    <3>4. QED
      BY <3>1, <3>2, <3>3 DEF Next, Client, Server
  <2>2. TransportConnects => link = "none"
    BY DEF TransportConnects
  <2>3. QED
    BY <2>1, <2>2 DEF Trusted
<1>4. QED
  BY <1>1, <1>2, <1>3 DEF Trusted

LEMMA DonePlaced ==
  ASSUME Typed, Stages, Placed, Done, ~strayed'
  PROVE  Placed'
<1>1. step # None /\ finished /\ Returns(success)
  BY DEF Done
<1>2. step' = None /\ srv' = srv
  BY <1>1, ReturnsOut
<1>3. toServer = None
  BY <1>1 DEF Stages, Held
<1>4. /\ step \in Requests /\ step.op \in Ops
      /\ step.op = "CONNECT" => todo = <<>> /\ step = Connect
      /\ step.op = "DISCONNECT" => todo = <<>> /\ step = Disconnect
      /\ step.op \in {"PUT", "DOWN", "UP"} => todo # <<>> /\ step = Head(todo)
  BY <1>1, StepStage
<1>5. /\ Chained(todo) /\ srv.cwd = Reaches(step)
      /\ step.op \in {"DOWN", "UP"} => success
  BY <1>1, <1>3 DEF Placed
<1>6. Chained(todo') /\ srv.cwd = Before(todo')
  <2>1. CASE step.op \in {"CONNECT", "DISCONNECT"}
    <3>1. todo' = todo /\ todo = <<>>
      BY <1>1, <1>4, <2>1 DEF Returns
    <3>2. Reaches(step) = <<>>
      BY <1>4, <2>1 DEF Reaches, After, Connect, Disconnect, Visit
    <3>3. QED
      BY <1>5, <3>1, <3>2, NoWalk
  <2>2. CASE step.op \in {"PUT", "DOWN", "UP"}
    <3>1. Visited(step, success)
      BY <1>1, <2>2 DEF Returns
    <3>2. CASE success \/ ~step.checked
      <4>1. todo' = Follows(Head(todo)) \o Tail(todo)
        BY <1>4, <2>2, <3>1, <3>2 DEF Visited
      <4>2. todo \in Seq(Visits) /\ todo # <<>>
        BY <1>4, <2>2 DEF Typed, ClientTyped
      <4>3. QED
        BY <1>4, <1>5, <2>2, <4>1, <4>2, WalkGoesOn
    <3>3. CASE ~(success \/ ~step.checked)
      <4>1. todo' = <<>> /\ step.at = <<>> /\ step.op = "PUT"
        BY <1>5, <2>2, <3>1, <3>3 DEF Visited
      <4>2. Reaches(step) = <<>>
        BY <4>1 DEF Reaches, After
      <4>3. QED
        BY <1>5, <4>1, <4>2, NoWalk
    <3>4. QED
      BY <3>2, <3>3
  <2>3. QED
    BY <1>4, <2>1, <2>2 DEF Ops
<1>7. QED
  BY <1>2, <1>6 DEF Placed

LEMMA ReceivesPlaced ==
  ASSUME Typed, Stages, Synced, "timeout" \notin faults, Placed, Receives, ~srv'.finished
  PROVE  Placed'
<1>1. /\ toServer # None /\ toServer' = None
      /\ UNCHANGED <<clientVars, object, link, spc>>
      /\ object # None /\ object \in Requests /\ toServer.op = object.op
      /\ \/ srv'.finished
         \/ /\ object.op \notin {"UP", "DOWN"} => srv'.cwd = srv.cwd
            /\ object.op = "DOWN" =>
                 srv'.cwd = Append(srv.cwd, toServer.name) /\ toClient' = "SUCCESS"
            /\ object.op = "UP" /\ srv.cwd # <<>> =>
                 srv'.cwd = Front(srv.cwd) /\ toClient' = "SUCCESS"
  BY ReceivesShape
<1>2. step # None /\ ~finished /\ object = step
  BY <1>1 DEF Synced
<1>3. /\ step.op \in Ops
      /\ step.op = "CONNECT" => todo = <<>> /\ step = Connect
      /\ step.op = "DISCONNECT" => todo = <<>> /\ step = Disconnect
      /\ step.op \in {"PUT", "DOWN", "UP"} => todo # <<>> /\ step = Head(todo)
  BY <1>2, StepStage
<1>4. Chained(todo) /\ srv.cwd = Before(todo)
  BY <1>1, <1>2 DEF Placed
<1>5. UNCHANGED <<step, todo, finished, success>>
  BY <1>1 DEF clientVars
<1>6. CASE step.op \in {"CONNECT", "DISCONNECT"}
  <2>1. srv'.cwd = <<>>
    BY <1>1, <1>2, <1>3, <1>4, <1>6, NoWalk
  <2>2. Reaches(step) = <<>>
    BY <1>3, <1>6 DEF Reaches, After, Connect, Disconnect, Visit
  <2>3. QED
    BY <1>1, <1>2, <1>4, <1>5, <1>6, <2>1, <2>2 DEF Placed
<1>7. CASE step.op = "PUT"
  <2>1. srv'.cwd = step.at
    BY <1>1, <1>2, <1>3, <1>4, <1>7, AtHead
  <2>2. Reaches(step) = step.at
    BY <1>7 DEF Reaches, After
  <2>3. QED
    BY <1>1, <1>2, <1>4, <1>5, <1>7, <2>1, <2>2 DEF Placed
<1>8. CASE step.op = "DOWN"
  <2>1. toServer.name = step.file.name
    BY <1>1, <1>2, <1>8 DEF Typed, LibraryTyped
  <2>2. srv'.cwd = Append(step.at, step.file.name) /\ toClient' = "SUCCESS"
    BY <1>1, <1>2, <1>3, <1>4, <1>8, <2>1, AtHead
  <2>3. Reaches(step) = Append(step.at, step.file.name)
    BY <1>8 DEF Reaches
  <2>4. QED
    BY <1>1, <1>2, <1>4, <1>5, <1>8, <2>2, <2>3 DEF Placed
<1>9. CASE step.op = "UP"
  <2>1. step.at # <<>> /\ srv.cwd = step.at
    BY <1>1, <1>2, <1>3, <1>4, <1>9, AtHead, VisitFields DEF Proper
  <2>2. srv'.cwd = Front(step.at) /\ toClient' = "SUCCESS"
    BY <1>1, <1>2, <1>9, <2>1
  <2>3. Reaches(step) = Front(step.at)
    BY <1>9 DEF Reaches, After
  <2>4. QED
    BY <1>1, <1>2, <1>4, <1>5, <1>9, <2>2, <2>3 DEF Placed
<1>10. QED
  BY <1>3, <1>6, <1>7, <1>8, <1>9 DEF Ops

LEMMA VisitPlaced ==
  ASSUME Typed, Stages, Synced, Placed, ircp_visit, Trusted', "timeout" \notin faults
  PROVE  Placed'
<1>1. /\ step = None /\ todo # <<>> /\ link # "none"
      /\ UNCHANGED <<link, toClient, srv>>
  BY VisitCases
<1>2. link = "up"
  BY <1>1 DEF Trusted, Typed, ClientTyped
<1>3. Chained(todo) /\ srv.cwd = Before(todo) /\ Before(todo) = Head(todo).at
  BY <1>1, AtHead DEF Placed
<1>4. toServer = None /\ toClient = None
  <2>1. object = None
    BY <1>1 DEF Synced
  <2>2. QED
    BY <2>1 DEF Stages, Held
<1>5. todo \in Seq(Visits)
  BY DEF Typed, ClientTyped
<1>6. CASE /\ UNCHANGED todo
           /\ \E name, f : MaySend(Head(todo), name, f) /\ cli_sync_request(Head(todo), name, f)
  BY <1>1, <1>2, <1>3, <1>6, StartPlace
<1>7. CASE /\ Head(todo).op = "PUT" \/ Head(todo).at # <<>>
           /\ Visited(Head(todo), FALSE)
           /\ UNCHANGED <<step, finished, success, fd, object, toServer>>
  <2>1. ~strayed'
    BY DEF Trusted
  <2>2. Proper(Head(todo)) /\ Head(todo).checked \in BOOLEAN
    BY <1>1, HeadVisit
  <2>3. Head(todo).checked
    BY <1>7, <2>2 DEF Proper
  <2>4. todo' = <<>> /\ Head(todo).at = <<>>
    BY <1>7, <2>1, <2>3 DEF Visited
  <2>5. QED
    BY <1>1, <1>3, <1>7, <2>4, NoWalk DEF Placed
<1>8. CASE /\ Head(todo).op = "SKIP" /\ Visited(Head(todo), TRUE)
           /\ UNCHANGED <<step, finished, success, fd, object, toServer>>
  <2>1. todo' = Follows(Head(todo)) \o Tail(todo)
    BY <1>8 DEF Visited
  <2>2. Chained(todo') /\ Before(todo') = Reaches(Head(todo))
    BY <1>1, <1>3, <1>5, <2>1, WalkGoesOn
  <2>3. Reaches(Head(todo)) = Head(todo).at
    BY <1>8 DEF Reaches, After
  <2>4. QED
    BY <1>1, <1>3, <1>8, <2>2, <2>3 DEF Placed
<1>9. QED
  BY <1>6, <1>7, <1>8, VisitCases

LEMMA HandleInputPlaced ==
  ASSUME Typed, Stages, Synced, Placed, HandleInput, "timeout" \notin faults
  PROVE  Placed'
<1>1. /\ step # None /\ ~finished /\ toClient # None /\ toClient' = None
      /\ UNCHANGED <<todo, step, link, srv>>
      /\ toServer = None /\ object # None
      /\ \/ /\ object.op = "PUT"
            /\ Packs(object, None, fd) \/ Fails(object, fd)
         \/ Ended
  BY HandleInputIs
<1>2. object = step
  BY <1>1 DEF Synced
<1>3. /\ Chained(todo) /\ srv.cwd = Reaches(step)
      /\ step.op \in {"DOWN", "UP"} => toClient = "SUCCESS"
  BY <1>1 DEF Placed
<1>4. CASE object.op = "PUT" /\ Packs(object, None, fd)
  <2>1. toServer' # None /\ finished' = FALSE
    BY <1>4 DEF Packs
  <2>2. todo # <<>> /\ step = Head(todo)
    BY <1>1, <1>2, <1>4, StepStage
  <2>3. Before(todo) = step.at /\ Reaches(step) = step.at
    BY <1>2, <1>4, <2>2, AtHead DEF Reaches, After
  <2>4. QED
    BY <1>1, <1>2, <1>3, <1>4, <2>1, <2>3 DEF Placed
<1>5. CASE object.op = "PUT" /\ Fails(object, fd)
  <2>1. toServer' = None
    BY <1>1, <1>5 DEF Fails
  <2>2. QED
    BY <1>1, <1>2, <1>3, <1>5, <2>1 DEF Placed
<1>6. CASE Ended
  <2>1. toServer' = None /\ success' = (toClient = "SUCCESS")
    BY <1>1, <1>6 DEF Ended
  <2>2. QED
    BY <1>1, <1>3, <2>1 DEF Placed
<1>7. QED
  BY <1>1, <1>4, <1>5, <1>6

(* Without a timeout, the walk and the server stay together until the walk  *)
(* is left inside of a directory, the server refuses, or the link is lost.  *)
LEMMA NextPlace ==
  ASSUME Typed, Stages, Synced, Place, [Next]_vars
  PROVE  Place'
<1> SUFFICES ASSUME Trusted'
             PROVE  Placed'
  BY DEF Place, Placed
<1>0. Trusted
  BY TrustedBefore
<1>a. Placed /\ "timeout" \notin faults
  BY <1>0 DEF Place, Placed, Trusted
<1>b. "timeout" \notin faults' /\ link' # "down" /\ ~srv'.finished /\ ~strayed'
  BY DEF Trusted
<1>c. link = "none" => todo = <<>> /\ toServer = None /\ toClient = None /\ step = None
  BY DEF Stages, Progress, Held
<1>1. CASE UNCHANGED vars
  BY <1>1, <1>a DEF vars, clientVars, Placed
<1>2. CASE TransportConnects
  BY <1>2, <1>a DEF TransportConnects, Placed
<1>3. CASE ircp_cli_connect
  <2>1. /\ step = None /\ link # "none" /\ todo = <<>>
        /\ MaySend(Connect, None, fd) /\ cli_sync_request(Connect, None, fd)
        /\ UNCHANGED <<todo, link, toClient, srv>>
    BY <1>3, ConnectCase
  <2>2. link = "up" /\ Connect.op # "PUT"
    BY <1>b, <2>1 DEF Typed, ClientTyped, Connect, Visit
  <2>3. QED
    BY <1>a, <2>1, <2>2, StartPlace
<1>4. CASE NextArgument
  <2>1. /\ step = None /\ todo = <<>> /\ left # <<>>
        /\ todo' \in {ircp_put(Head(left)), ircp_put(Here)}
        /\ UNCHANGED <<step, finished, success, toServer, toClient, srv>>
    BY <1>4 DEF NextArgument
  <2>2. Head(left) \in Nodes /\ Here \in Nodes
    BY <2>1, HeadTailProperties, ArgsAssumption DEF Typed, ClientTyped, Dirs
  <2>3. Chained(todo') /\ Before(todo') = <<>>
    BY <2>1, <2>2, ArgumentVisits
  <2>4. srv.cwd = <<>>
    BY <1>a, <2>1, NoWalk DEF Placed
  <2>5. QED
    BY <2>1, <2>3, <2>4 DEF Placed
<1>5. CASE ircp_visit
  BY <1>5, <1>a, VisitPlaced
<1>6. CASE ircp_cli_disconnect
  <2>1. /\ step = None /\ link # "none" /\ todo = <<>>
        /\ MaySend(Disconnect, None, fd) /\ cli_sync_request(Disconnect, None, fd)
        /\ UNCHANGED <<todo, link, toClient, srv>>
    BY <1>6, DisconnectCase
  <2>2. link = "up" /\ Disconnect.op # "PUT"
    BY <1>b, <2>1 DEF Typed, ClientTyped, Disconnect, Visit
  <2>3. QED
    BY <1>a, <2>1, <2>2, StartPlace
<1>7. CASE HandleInput
  BY <1>7, <1>a, HandleInputPlaced
<1>8. CASE Done
  BY <1>8, <1>a, <1>b, DonePlaced
<1>9. CASE LinkLost
  BY <1>9, <1>0 DEF LinkLost, Trusted
<1>10. CASE Receives
  BY <1>10, <1>a, <1>b, ReceivesPlaced
<1>11. CASE ServerEnds
  <2>1. srv.finished \/ link = "down"
    BY <1>11 DEF ServerEnds
  <2>2. QED
    BY <1>0, <2>1 DEF Trusted
<1>12. CASE TimesOut
  BY <1>12, <1>b DEF TimesOut, Fault
<1>13. CASE LinkBreaks
  BY <1>13, <1>b DEF LinkBreaks
<1>14. QED
  BY <1>1, <1>2, <1>3, <1>4, <1>5, <1>6, <1>7, <1>8, <1>9, <1>10, <1>11, <1>12, <1>13
     DEF Next, Client, Server

(* What is known of a behaviour, without what is in the files.              *)
LEMMA PlacedSpec == Spec => [](Typed /\ Stages /\ Synced /\ Place)
<1>1. Init => Typed /\ Stages /\ Synced /\ Place
  BY InitTyped, InitSynced, InitPlace
<1>2. Typed /\ Stages /\ Synced /\ Place /\ [Next]_vars
      => Typed' /\ Stages' /\ Synced' /\ Place'
  BY NextTyped, NextSynced, NextPlace
<1>3. QED
  BY <1>1, <1>2, PTL DEF Spec

(* A packet of a file on its way finds the server in the directory that the *)
(* file is meant for.                                                       *)
LEMMA PlaceOfPacket ==
  ASSUME Typed, Stages, Synced, Place
  PROVE  InPlace
<1> SUFFICES ASSUME toServer # None, toServer.op = "PUT",
                    ~srv.finished, ~strayed, "timeout" \notin faults
             PROVE  srv.cwd = object.at
  BY DEF InPlace
<1>1. link = "up" /\ object = step /\ object # None
  <2>1. object # None
    BY DEF Stages, Held
  <2>2. QED
    BY <2>1 DEF Synced
<1>2. object.op = "PUT"
  BY DEF Typed, LibraryTyped
<1>3. todo # <<>> /\ step = Head(todo)
  BY <1>1, <1>2, StepStage
<1>4. srv.cwd = Before(todo)
  BY <1>1 DEF Trusted, Place
<1>5. QED
  BY <1>1, <1>3, <1>4, AtHead

(* What arrives of a file finds the server in the directory the file is     *)
(* meant for, until the server has refused a directory, the walk was left   *)
(* inside of one, or a request timed out: for any trees of files.           *)
THEOREM WalkInStep == Spec => []InPlace
<1>1. Typed /\ Stages /\ Synced /\ Place => InPlace
  BY PlaceOfPacket
<1>2. QED
  BY <1>1, PlacedSpec, PTL

-----------------------------------------------------------------------------
(* What the server has of the file that is sent.                            *)

Moves == Whole /\ Quiet /\ OfOneFile /\ Result /\ Reports

LEMMA CleanBefore ==
  ASSUME Typed, Stages, [Next]_vars, Clean'
  PROVE  Clean /\ "timeout" \notin faults /\ "timeout" \notin faults'
         /\ "read" \notin faults' /\ "write" \notin faults'
BY Grows DEF Clean

LEMMA StoredStays ==
  ASSUME faults \subseteq faults', strayed => strayed', Kept(srv, srv'),
         Len(srv.inbox) \in Nat, Len(srv'.inbox) \in Nat,
         NEW v, Stored(v)
  PROVE  Stored(v)'
<1>1. CASE "create" \in faults /\ v.file.chunks = 0
  BY <1>1 DEF Stored
<1>2. ASSUME NEW i \in 1..Len(srv.inbox), i # srv.fd,
             srv.inbox[i].name = v.file.name, srv.inbox[i].data = Chunks(v.file),
             strayed \/ srv.inbox[i].dir = v.at
      PROVE  Stored(v)'
  <2>1. i \in 1..Len(srv'.inbox) /\ i # srv'.fd /\ srv'.inbox[i] = srv.inbox[i]
    BY <1>2 DEF Kept
  <2>2. QED
    BY <1>2, <2>1 DEF Stored
<1>3. QED
  BY <1>1, <1>2 DEF Stored

LEMMA KeptSelf ==
  ASSUME Typed, srv' = srv
  PROVE  Kept(srv, srv') /\ Len(srv.inbox) \in Nat /\ Len(srv'.inbox) \in Nat
<1>1. Len(srv.inbox) \in Nat
  BY ServerFields DEF Typed, ServerTyped
<1>2. QED
  BY <1>1 DEF Kept

(* Of an action of the client the server sees nothing.                      *)
LEMMA ClientKeeps ==
  ASSUME Typed, Stages, [Next]_vars, Moves, srv' = srv
  PROVE  /\ Whole' /\ (Idle => Idle')
         /\ \A v : Stored(v) => Stored(v)'
         /\ reported' \subseteq reported => Reports'
<1>1. Whole' /\ (Idle => Idle')
  BY DEF Moves, Whole, Idle, Prefix
<1>2. faults \subseteq faults' /\ (strayed => strayed')
  BY Grows
<1>3. ASSUME NEW v, Stored(v)
      PROVE  Stored(v)'
  BY <1>2, <1>3, KeptSelf, StoredStays
<1>4. reported' \subseteq reported => Reports'
  BY <1>3 DEF Moves, Reports
<1>5. QED
  BY <1>1, <1>3, <1>4

LEMMA InitMoves == Init => Moves
<1> SUFFICES ASSUME Init
             PROVE  Moves
  OBVIOUS
<1>1. /\ srv.inbox = <<>> /\ srv.fd = 0 /\ srv.cmd = None /\ object = None
      /\ toServer = None /\ toClient = None /\ finished = FALSE /\ reported = {}
  BY DEF Init
<1>2. Whole
  <2>1. Len(srv.inbox) = 0
    BY <1>1
  <2>2. QED
    BY <2>1 DEF Whole
<1>3. QED
  BY <1>1, <1>2 DEF Moves, Quiet, Idle, OfOneFile, Result, Reports

(* A packet with the chunks that follow what was sent before.               *)
LEMMA PacketArrives ==
  ASSUME NEW f \in Opens, NEW m \in (f.next - 1)..f.file.chunks, Carries(toServer', f, m),
         object' # None, f.file = object'.file,
         \/ Idle' /\ f.next = 1 /\ toServer'.name = object'.file.name
         \/ /\ srv'.cmd = "PUT" /\ toServer'.name = None
            /\ Receiving(f.next - 1)' \/ Denied'
  PROVE  Arriving' /\ (fd' # None => fd'.file = object'.file)
<1> DEFINE c == f.file.chunks
           n == f.next - 1
<1>1. /\ f.next \in Nat /\ f.next \in 1..(c + 1) /\ c \in Nat
      /\ Chunks(f.file) = Chunked(f.file.name, c)
  BY OpenFields
<1>2. n \in Nat /\ n + 1 = f.next /\ m \in n..c /\ m \in Nat
  BY <1>1
<1>3. Sent' = m /\ (fd' # None => fd'.file = object'.file)
      /\ (toServer'.end <=> fd' = None) /\ (toServer'.final <=> fd' = None)
      /\ (~toServer'.final => n < m)
  <2>1. CASE /\ m \in f.next..c
             /\ fd' # None /\ fd'.file = f.file /\ fd'.next = m + 1
             /\ toServer'.end = FALSE /\ toServer'.final = FALSE
    <3>1. Sent' = m
      <4>1. Sent' = fd'.next - 1
        BY <2>1 DEF Sent
      <4>2. QED
        BY <1>2, <2>1, <4>1
    <3>2. n < m
      BY <1>1, <1>2, <2>1
    <3>3. QED
      BY <2>1, <3>1, <3>2
  <2>2. CASE m = c /\ fd' = None /\ toServer'.end = TRUE /\ toServer'.final = TRUE
    BY <1>1, <1>2, <2>2 DEF Sent
  <2>3. QED
    BY <2>1, <2>2 DEF Carries
<1>4. toServer'.data = SubSeq(Chunks(object'.file), n + 1, m)
  BY <1>1, <1>2 DEF Carries
<1>5. n \in 0..m
  BY <1>2
<1>6. \/ Idle' /\ n = 0 /\ toServer'.name = object'.file.name
      \/ srv'.cmd = "PUT" /\ toServer'.name = None /\ (Receiving(n)' \/ Denied')
  BY <1>1
<1> HIDE DEF n, c
<1>7. QED
  BY <1>3, <1>4, <1>5, <1>6 DEF Arriving

LEMMA StartMoves ==
  ASSUME Typed, Stages, Synced, [Next]_vars, Clean', Moves,
         step = None, link # "none",
         NEW r, NEW name, NEW f, MaySend(r, name, f), cli_sync_request(r, name, f),
         r.op = "PUT" => f = [file |-> r.file, next |-> 1] /\ f # None /\ name = r.file.name,
         toClient' = toClient, link' = link, srv' = srv, reported' = reported
  PROVE  Moves'
<1>1. "timeout" \notin faults /\ "read" \notin faults'
  BY CleanBefore
<1>2. /\ step' = r /\ r # None /\ object = None
      /\ (Packs(r, name, f) \/ Fails(r, f))
  BY <1>1, StartSynced
<1>3. toServer = None /\ toClient' = None
  BY <1>2 DEF Stages, Held
<1>4. Whole' /\ Reports' /\ (Idle => Idle')
  BY ClientKeeps
<1>5. CASE Packs(r, name, f)
  <2>1. /\ link = "up" /\ object' = r /\ finished' = FALSE
        /\ toServer'.name = name
        /\ r.op = "PUT" => f # None /\ \E m \in (f.next - 1)..f.file.chunks : Carries(toServer', f, m)
    BY <1>5 DEF Packs
  <2>2. Idle'
    BY <1>2, <1>4, <2>1 DEF Moves, Quiet
  <2>3. Quiet' /\ Result'
    BY <1>2, <2>1, <2>2 DEF Quiet, Result
  <2>4. OfOneFile'
    <3>1. CASE r.op = "PUT"
      <4>1. PICK m \in (f.next - 1)..f.file.chunks : Carries(toServer', f, m)
        BY <2>1, <3>1
      <4>2. f \in Opens /\ f.file = r.file /\ f.next = 1
        BY <3>1 DEF MaySend
      <4>3. Arriving' /\ (fd' # None => fd'.file = object'.file)
        BY <1>2, <2>1, <2>2, <3>1, <4>1, <4>2, PacketArrives
      <4>4. QED
        BY <1>3, <4>3 DEF OfOneFile
    <3>2. CASE r.op # "PUT"
      BY <2>1, <3>2 DEF OfOneFile
    <3>3. QED
      BY <3>1, <3>2
  <2>5. QED
    BY <1>4, <2>3, <2>4 DEF Moves
<1>6. CASE Fails(r, f)
  <2>1. object' = None /\ success' = FALSE /\ toServer' = None /\ link # "up"
    BY <1>1, <1>3, <1>6 DEF Fails
  <2>2. link' = "down"
    BY <2>1 DEF Typed, ClientTyped
  <2>3. QED
    BY <1>3, <1>4, <2>1, <2>2 DEF Moves, Quiet, OfOneFile, Result
<1>7. QED
  BY <1>2, <1>5, <1>6

LEMMA HandleInputMoves ==
  ASSUME Typed, Stages, Synced, [Next]_vars, Clean', Moves, HandleInput
  PROVE  Moves'
<1>1. "timeout" \notin faults /\ "read" \notin faults'
  BY CleanBefore
<1>2. /\ step # None /\ ~finished /\ toClient # None /\ toClient' = None
      /\ UNCHANGED <<step, reported, strayed, link, srv>>
      /\ toServer = None /\ object # None /\ object \in Requests
      /\ link # "none"
      /\ \/ /\ toClient = "CONTINUE" /\ object.op = "PUT" /\ MaySend(object, None, fd)
            /\ Packs(object, None, fd) \/ Fails(object, fd)
         \/ Ended
  BY HandleInputIs
<1>3. object = step
  BY <1>1, <1>2 DEF Synced
<1>4. Whole' /\ Reports' /\ (Idle => Idle') /\ \A v : Stored(v) => Stored(v)'
  BY <1>2, ClientKeeps
<1>5. CASE toClient = "CONTINUE" /\ object.op = "PUT" /\ Packs(object, None, fd)
  <2>1. /\ object' = object /\ finished' = FALSE
        /\ toServer'.name = None
        /\ fd # None /\ \E m \in (fd.next - 1)..fd.file.chunks : Carries(toServer', fd, m)
    BY <1>5 DEF Packs
  <2>2. /\ srv.cmd = "PUT" /\ (Receiving(Sent) \/ Denied) /\ fd.file = object.file
    BY <1>2, <1>5, <2>1 DEF Moves, OfOneFile, Answered
  <2>3. PICK f : f = fd
    OBVIOUS
  <2>4. f \in Opens /\ Sent = f.next - 1
    BY <2>1, <2>3 DEF Typed, LibraryTyped, Sent
  <2>5. Receiving(f.next - 1) \/ Denied
    BY <2>2, <2>4
  <2>6. srv'.cmd = "PUT" /\ (Receiving(f.next - 1)' \/ Denied')
    <3>1. CASE Receiving(f.next - 1)
      BY <1>2, <2>1, <2>2, <3>1 DEF Receiving
    <3>2. CASE Denied
      BY <1>2, <2>2, <3>2 DEF Denied
    <3>3. QED
      BY <2>5, <3>1, <3>2
  <2>7. PICK m \in (f.next - 1)..f.file.chunks : Carries(toServer', f, m)
    BY <2>1, <2>3
  <2>8. Arriving' /\ (fd' # None => fd'.file = object'.file)
    BY <1>2, <2>1, <2>2, <2>3, <2>4, <2>6, <2>7, PacketArrives
  <2>9. QED
    BY <1>2, <1>4, <1>5, <2>1, <2>8 DEF Moves, Quiet, OfOneFile, Result
<1>6. CASE toClient = "CONTINUE" /\ object.op = "PUT" /\ Fails(object, fd)
  <2>1. fd # None
    BY <1>2, <1>6 DEF Moves, OfOneFile, Answered
  <2>2. object' = None /\ success' = FALSE /\ toServer' = None /\ link # "up"
    BY <1>1, <1>2, <1>6, <2>1 DEF Fails
  <2>3. link' = "down"
    BY <1>2, <2>2 DEF Typed, ClientTyped
  <2>4. QED
    BY <1>2, <1>4, <2>2, <2>3 DEF Moves, Quiet, OfOneFile, Result
<1>7. CASE Ended
  <2>1. /\ object' = None /\ success' = (toClient = "SUCCESS") /\ toClient # "CONTINUE"
        /\ toServer' = None
    BY <1>2, <1>7 DEF Ended
  <2>2. Idle /\ (object.op = "PUT" /\ toClient = "SUCCESS" => Stored(object))
    <3>1. CASE object.op = "PUT"
      BY <1>2, <2>1, <3>1 DEF Moves, OfOneFile, Answered
    <3>2. CASE object.op # "PUT"
      BY <1>2, <3>2 DEF Moves, Quiet
    <3>3. QED
      BY <3>1, <3>2
  <2>3. Quiet' /\ OfOneFile'
    BY <1>2, <1>4, <2>1, <2>2 DEF Quiet, OfOneFile
  <2>4. Result'
    <3>1. SUFFICES ASSUME success', step'.op = "PUT"
                   PROVE  Stored(step)'
      BY DEF Result
    <3>2. PICK v : v = step
      OBVIOUS
    <3>3. Stored(v)
      BY <1>2, <1>3, <2>1, <2>2, <3>1, <3>2
    <3>4. Stored(v)' /\ v = step'
      BY <1>2, <1>4, <3>2, <3>3
    <3>5. QED
      BY <3>4 DEF Stored
  <2>5. QED
    BY <1>4, <2>3, <2>4 DEF Moves
<1>8. QED
  BY <1>2, <1>5, <1>6, <1>7

LEMMA DoneMoves ==
  ASSUME Typed, Stages, [Next]_vars, Moves, Done
  PROVE  Moves'
<1>1. step # None /\ finished /\ Returns(success) /\ object' = object
  BY DEF Done
<1>2. /\ step' = None /\ UNCHANGED <<toServer, toClient, srv>>
      /\ link' = link \/ link' = "down"
  BY <1>1, ReturnsOut
<1>3. object = None /\ toServer = None /\ toClient = None
  BY <1>1 DEF Stages, Held
<1>4. Whole' /\ (Idle => Idle') /\ (\A v : Stored(v) => Stored(v)')
  BY <1>2, ClientKeeps
<1>5. Quiet' /\ OfOneFile' /\ Result'
  BY <1>1, <1>2, <1>3, <1>4 DEF Moves, Quiet, OfOneFile, Result
<1>6. Reports'
  <2>1. reported' = reported \/ (step.op = "PUT" /\ success /\ reported' = reported \union {step})
    BY <1>1, StepStage DEF Returns, Ops
  <2>2. step.op = "PUT" /\ success => Stored(step)
    BY <1>1 DEF Moves, Result
  <2>3. \A v \in reported' : Stored(v)
    BY <2>1, <2>2 DEF Moves, Reports
  <2>4. QED
    BY <1>4, <2>3 DEF Reports
<1>7. QED
  BY <1>4, <1>5, <1>6 DEF Moves

LEMMA LinkLostMoves ==
  ASSUME Typed, Stages, Synced, "timeout" \notin faults, [Next]_vars, Moves, LinkLost
  PROVE  Moves'
<1>1. /\ step # None /\ Returns(FALSE) /\ object' = None /\ success' = FALSE
      /\ toClient = None /\ link = "down"
  BY DEF LinkLost, Linkerr
<1>2. /\ step' = None /\ UNCHANGED <<toServer, toClient, srv>> /\ link' = "down"
  BY <1>1, ReturnsOut
<1>3. toServer = None
  BY <1>1 DEF Synced
<1>4. reported' = reported
  BY <1>1, StepStage DEF Returns, Ops
<1>5. Whole' /\ Reports'
  BY <1>2, <1>4, ClientKeeps
<1>6. QED
  BY <1>1, <1>2, <1>3, <1>5 DEF Moves, Quiet, OfOneFile, Result

(* Nothing moves when the client takes up the next visit or argument, nor   *)
(* when what is on its way is lost.                                         *)
LEMMA StillMoves ==
  ASSUME Typed, Stages, [Next]_vars, Moves, link = "down" => link' = "down",
         toServer' = toServer \/ toServer' = None, toClient' = toClient \/ toClient' = None,
         UNCHANGED <<step, finished, success, fd, object, srv, reported>>
  PROVE  Moves'
<1>1. Whole' /\ Reports' /\ (Idle => Idle') /\ (\A v : Stored(v) => Stored(v)')
  BY ClientKeeps
<1>2. Quiet'
  BY <1>1 DEF Moves, Quiet
<1>3. Result'
  <2>1. SUFFICES ASSUME finished', success', step' # None, step'.op = "PUT"
                 PROVE  Stored(step)'
    BY DEF Result
  <2>2. PICK v : v = step
    OBVIOUS
  <2>3. Stored(v)
    BY <2>1, <2>2 DEF Moves, Result
  <2>4. Stored(v)' /\ v = step'
    BY <1>1, <2>2, <2>3
  <2>5. QED
    BY <2>4 DEF Stored
<1>4. strayed => strayed'
  BY Grows
<1>5. toServer' # None /\ object'.op = "PUT" => Arriving'
  <2>1. SUFFICES ASSUME toServer # None, toServer' = toServer, object.op = "PUT", Arriving
                 PROVE  Arriving'
    BY DEF Moves, OfOneFile
  <2>2. Sent' = Sent
    BY DEF Sent
  <2>3. /\ toServer'.end <=> fd' = None
        /\ toServer'.final <=> fd' = None
    BY <2>1 DEF Arriving
  <2>4. PICK got \in 0..Sent :
           /\ toServer.data = SubSeq(Chunks(object.file), got + 1, Sent)
           /\ ~toServer.final => got < Sent
           /\ \/ Idle /\ got = 0 /\ toServer.name = object.file.name
              \/ srv.cmd = "PUT" /\ toServer.name = None /\ (Receiving(got) \/ Denied)
    BY <2>1 DEF Arriving
  <2>5. \/ Idle' /\ got = 0 /\ toServer'.name = object'.file.name
        \/ srv'.cmd = "PUT" /\ toServer'.name = None /\ (Receiving(got)' \/ Denied')
    BY <1>1, <1>4, <2>1, <2>4 DEF Receiving, Denied
  <2>6. QED
    BY <2>1, <2>2, <2>3, <2>4, <2>5 DEF Arriving
<1>6. toClient' # None /\ object'.op = "PUT" => Answered'
  <2>1. SUFFICES ASSUME toClient # None, toClient' = toClient, object.op = "PUT", Answered
                 PROVE  Answered'
    BY DEF Moves, OfOneFile
  <2>2. CASE toClient = "CONTINUE"
    <3>1. PICK n : n = Sent
      OBVIOUS
    <3>2. fd # None /\ srv.cmd = "PUT" /\ (Receiving(n) \/ Denied)
      BY <2>1, <2>2, <3>1 DEF Answered
    <3>3. n = Sent' /\ (Receiving(n)' \/ Denied')
      BY <1>4, <3>1, <3>2 DEF Sent, Receiving, Denied
    <3>4. QED
      BY <2>1, <2>2, <3>2, <3>3 DEF Answered, Receiving
  <2>3. CASE toClient # "CONTINUE"
    <3>1. PICK v : v = object
      OBVIOUS
    <3>2. Idle' /\ (toClient' = "SUCCESS" => Stored(v)') /\ v = object'
      BY <1>1, <2>1, <2>3, <3>1 DEF Answered
    <3>3. QED
      BY <2>1, <2>3, <3>2 DEF Answered, Stored
  <2>4. QED
    BY <2>2, <2>3
<1>7. OfOneFile'
  BY <1>5, <1>6 DEF Moves, OfOneFile
<1>8. QED
  BY <1>1, <1>2, <1>3, <1>7 DEF Moves

LEMMA VisitMoves ==
  ASSUME Typed, Stages, Synced, [Next]_vars, Clean', Moves, ircp_visit
  PROVE  Moves'
<1>1. /\ step = None /\ todo # <<>> /\ link # "none"
      /\ UNCHANGED <<reported, link, toClient, srv>>
  BY VisitCases
<1>2. CASE /\ Head(todo).op = "PUT"
           /\ LET v == Head(todo)
                  f == [file |-> v.file, next |-> 1]
              IN  MaySend(v, v.file.name, f) /\ cli_sync_request(v, v.file.name, f)
  <2> DEFINE v == Head(todo)
  <2>1. PICK r, f : r = v /\ f = [file |-> v.file, next |-> 1]
    OBVIOUS
  <2>2. MaySend(r, r.file.name, f) /\ cli_sync_request(r, r.file.name, f)
    BY <1>2, <2>1
  <2>3. r.file \in Files
    BY <1>1, <1>2, <2>1, HeadVisit DEF Proper
  <2>4. f # None
    BY <2>1, <2>3, NoneAssumption
  <2>5. r.op = "PUT" => f = [file |-> r.file, next |-> 1] /\ f # None
    BY <2>1, <2>4
  <2>6. QED
    BY <1>1, <2>2, <2>5, StartMoves
<1>3. CASE /\ Head(todo).op \in {"DOWN", "UP"}
           /\ LET v == Head(todo)
                  name == IF v.op = "DOWN" THEN v.file.name ELSE None
              IN  MaySend(v, name, fd) /\ cli_sync_request(v, name, fd)
  BY <1>1, <1>3, StartMoves
<1>4. CASE UNCHANGED <<step, finished, success, fd, object, toServer>>
  BY <1>1, <1>4, StillMoves
<1>5. QED
  BY <1>2, <1>3, <1>4, VisitCases


-----------------------------------------------------------------------------
(* A packet of a file at the server.                                        *)

(* The packet's data are the chunks that follow those in file i of t, or    *)
(* the file could not be made.                                              *)
Landed(t) ==
  \/ /\ t.rsp = "SUCCESS"
     /\ \E i \in 1..Len(t.inbox) :
          /\ t.fd = IF toServer.end THEN 0 ELSE i
          /\ t.inbox[i].name = object.file.name
          /\ t.inbox[i].data = Chunked(object.file.name, Sent)
          /\ strayed \/ t.inbox[i].dir = object.at
          /\ \A j \in 1..Len(t.inbox) :
               j # i => j \in 1..Len(srv.inbox) /\ t.inbox[j] = srv.inbox[j]
  \/ /\ t.inbox = srv.inbox /\ t.fd = 0
     /\ \/ t.rsp = "BAD_REQUEST"
        \/ /\ t.rsp = "SUCCESS" /\ t.name = None /\ "create" \in faults'
           /\ toServer.end => object.file.chunks = 0

LEMMA PartJoin ==
  ASSUME NEW name \in Names, NEW c \in Nat, NEW n \in 0..c, NEW m \in n..c
  PROVE  /\ Part(name, c, n, m) \in Data
         /\ Chunked(name, n) \o Part(name, c, n, m) = Chunked(name, m)
BY ChunkJoin DEF Part

LEMMA FirstChunks ==
  ASSUME NEW name \in Names, NEW c \in Nat, NEW n \in 0..c, NEW m \in n..c, n = 0
  PROVE  Part(name, c, n, m) = Chunked(name, m)
<1>1. Part(name, c, n, m) \in Data /\ Chunked(name, n) \o Part(name, c, n, m) = Chunked(name, m)
  BY PartJoin
<1>2. Chunked(name, n) = <<>>
  <2>1. Chunked(name, n) \in Data /\ Len(Chunked(name, n)) = 0
    BY ChunkSeq
  <2>2. QED
    BY <2>1, EmptySeq DEF Data
<1>3. <<>> \o Part(name, c, n, m) = Part(name, c, n, m)
  BY <1>1 DEF Data
<1>4. QED
  BY <1>1, <1>2, <1>3

(* What is known of the packet and of the file it is of.                    *)
LEMMA PacketOfFile ==
  ASSUME Typed, Stages, toServer # None, object.op = "PUT", Arriving,
         object # None /\ fd # None => fd.file = object.file
  PROVE  LET c == object.file.chunks
             name == object.file.name
         IN  /\ object.file \in Files /\ c \in Nat /\ name \in Names /\ name # None
             /\ Chunks(object.file) = Chunked(name, c)
             /\ Sent \in 0..c /\ (toServer.end => Sent = c)
             /\ toServer \in Packets /\ toServer.data \in Data
             /\ toServer.end \in BOOLEAN /\ toServer.final \in BOOLEAN
             /\ (toServer.final <=> toServer.end) /\ (toServer.end <=> fd = None)
             /\ \E got \in 0..Sent :
                  /\ toServer.data = Part(name, c, got, Sent)
                  /\ toServer.data = <<>> <=> got = Sent
                  /\ ~toServer.end => got < Sent
                  /\ \/ Idle /\ got = 0 /\ toServer.name = name
                     \/ srv.cmd = "PUT" /\ toServer.name = None /\ (Receiving(got) \/ Denied)
<1> DEFINE c == object.file.chunks
           name == object.file.name
<1>1. object # None /\ object \in Requests
  BY DEF Stages, Held, Typed, LibraryTyped
<1>2. object.file \in Files
  BY <1>1 DEF Requests, VisitsOf, Proper
<1>3. c \in Nat /\ name \in Names /\ Chunks(object.file) = Chunked(name, c)
  BY <1>2, ChunksOf
<1>4. name # None
  BY <1>3, NoneAssumption
<1>5. Sent \in 0..c /\ (fd = None => Sent = c)
  <2>1. CASE fd = None
    BY <1>3, <2>1 DEF Sent
  <2>2. CASE fd # None
    <3>1. fd \in Opens /\ fd.file = object.file
      BY <1>1, <2>2 DEF Typed, LibraryTyped
    <3>2. fd.next \in 1..(c + 1)
      BY <3>1 DEF Opens
    <3>3. Sent = fd.next - 1
      BY <2>2 DEF Sent
    <3>4. QED
      BY <1>3, <2>2, <3>2, <3>3
  <2>3. QED
    BY <2>1, <2>2
<1>6. /\ toServer \in Packets /\ toServer.data \in Data
      /\ toServer.end \in BOOLEAN /\ toServer.final \in BOOLEAN
  BY DEF Typed, LibraryTyped, Packets
<1>7. (toServer.end <=> fd = None) /\ (toServer.final <=> fd = None)
  BY DEF Arriving
<1>8. PICK got \in 0..Sent :
        /\ toServer.data = SubSeq(Chunks(object.file), got + 1, Sent)
        /\ ~toServer.final => got < Sent
        /\ \/ Idle /\ got = 0 /\ toServer.name = object.file.name
           \/ srv.cmd = "PUT" /\ toServer.name = None /\ (Receiving(got) \/ Denied)
  BY DEF Arriving
<1>a. toServer.data = Part(name, c, got, Sent)
  BY <1>3, <1>8 DEF Part
<1>9. toServer.data = <<>> <=> got = Sent
  <2>1. got \in 0..c /\ Sent \in got..c
    BY <1>3, <1>5, <1>8
  <2>2. toServer.data = Part(name, c, got, Sent)
    BY <1>a
  <2>3. QED
    BY <1>3, <2>1, <2>2, NoChunks
<1>11. ~toServer.end => got < Sent
  BY <1>7, <1>8
<1>12. \E g \in 0..Sent :
         /\ toServer.data = Part(name, c, g, Sent)
         /\ toServer.data = <<>> <=> g = Sent
         /\ ~toServer.end => g < Sent
         /\ \/ Idle /\ g = 0 /\ toServer.name = name
            \/ srv.cmd = "PUT" /\ toServer.name = None /\ (Receiving(g) \/ Denied)
  BY <1>8, <1>9, <1>a, <1>11
<1>13. (toServer.final <=> toServer.end) /\ (toServer.end => Sent = c)
  BY <1>5, <1>7
<1>14. QED
  BY <1>2, <1>3, <1>4, <1>5, <1>6, <1>7, <1>12, <1>13

LEMMA PacketLands ==
  ASSUME Typed, Stages, Clean', faults \subseteq faults', ~srv.finished,
         toServer # None, object.op = "PUT", Arriving, Whole,
         object # None /\ fd # None => fd.file = object.file,
         strayed \/ srv.cwd = object.at,
         NEW creates \in BOOLEAN, NEW writes \in BOOLEAN,
         Faulted(toServer, Joined(toServer), creates, writes)
  PROVE  Landed(Stream(Joined(toServer), toServer, creates, writes))
<1> DEFINE c == object.file.chunks
           name == object.file.name
           p == toServer
           s == Joined(p)
           T == Stream(s, p, creates, writes)
<1>1. /\ object.file \in Files /\ c \in Nat /\ name \in Names /\ name # None
      /\ Sent \in 0..c /\ (p.end => Sent = c)
      /\ p \in Packets /\ p.data \in Data /\ p.end \in BOOLEAN
  BY PacketOfFile
<1>2. PICK got \in 0..Sent :
        /\ p.data = Part(name, c, got, Sent)
        /\ p.data = <<>> <=> got = Sent
        /\ ~p.end => got < Sent
        /\ \/ Idle /\ got = 0 /\ p.name = name
           \/ srv.cmd = "PUT" /\ p.name = None /\ (Receiving(got) \/ Denied)
  BY PacketOfFile
<1>3. srv \in Servers /\ srv.rsp = "SUCCESS" /\ faults \subseteq Faults
  BY DEF Typed, ServerTyped, ClientTyped
<1>4. /\ s \in Servers
      /\ s.name = IF p.name # None THEN p.name ELSE srv.name
      /\ s.fd = srv.fd /\ s.inbox = srv.inbox /\ s.cwd = srv.cwd /\ s.rsp = srv.rsp
  BY <1>1, <1>3, JoinedFields
<1>5. p.data # <<>> \/ p.end
  BY <1>1, <1>2
<1>6. /\ "write" \notin faults'
      /\ writes = TRUE
      /\ writes = TRUE /\ ~creates => "create" \in faults' /\ s.fd = 0 /\ s.name # None
  BY <1>3, FaultedFaults DEF Clean
<1>7. got \in 0..c /\ Sent \in got..c
  BY <1>1, <1>2
<1>8. /\ T \in Servers /\ Kept(s, T)
      /\ Len(T.inbox) \in Nat /\ Len(srv.inbox) \in Nat
  BY <1>1, <1>3, <1>4, StreamFields, ServerFields
<1> SUFFICES Landed(T)
  OBVIOUS
<1> HIDE DEF s, T, c, name, p
<1>9. CASE Idle /\ got = 0 /\ p.name = name /\ creates = TRUE
  <2>1. s.fd = 0 /\ s.name = name /\ s.name # None
    BY <1>1, <1>4, <1>9 DEF Idle
  <2> DEFINE n == Len(s.inbox) + 1
  <2>2. /\ T.rsp = s.rsp /\ Len(T.inbox) = n
        /\ T.fd = IF p.end THEN 0 ELSE n
        /\ T.inbox[n].name = s.name /\ T.inbox[n].dir = s.cwd /\ T.inbox[n].data = p.data
    BY <1>1, <1>4, <1>5, <1>6, <1>9, <2>1, StreamNew DEF T
  <2>3. p.data = Chunked(name, Sent)
    BY <1>1, <1>2, <1>7, <1>9, FirstChunks
  <2>4. n \in 1..Len(T.inbox) /\ n = Len(srv.inbox) + 1
    BY <1>4, <1>8, <2>2
  <2>5. \A j \in 1..Len(T.inbox) :
          j # n => j \in 1..Len(srv.inbox) /\ T.inbox[j] = srv.inbox[j]
    <3>1. SUFFICES ASSUME NEW j \in 1..Len(T.inbox), j # n
                   PROVE  j \in 1..Len(srv.inbox) /\ T.inbox[j] = srv.inbox[j]
      OBVIOUS
    <3>2. j \in 1..Len(srv.inbox)
      BY <1>8, <2>2, <2>4, <3>1
    <3>3. j # s.fd
      BY <2>1, <3>2
    <3>4. QED
      BY <1>4, <1>8, <3>2, <3>3 DEF Kept
  <2> HIDE DEF n
  <2>6. QED
    BY <1>3, <1>4, <2>1, <2>2, <2>3, <2>4, <2>5 DEF Landed, p, name
<1>10. CASE Idle /\ got = 0 /\ p.name = name /\ creates = FALSE
  <2>1. s.fd = 0 /\ s.name # None
    BY <1>1, <1>4, <1>10 DEF Idle
  <2>2. /\ T.inbox = s.inbox /\ T.fd = 0 /\ T.name = None
        /\ T.rsp = IF p.data # <<>> /\ p.end THEN "BAD_REQUEST" ELSE s.rsp
    BY <1>1, <1>4, <1>5, <1>10, <2>1, StreamNone DEF T
  <2>3. "create" \in faults'
    BY <1>6, <1>10
  <2>4. p.data = <<>> /\ p.end => c = 0
    BY <1>1, <1>2, <1>10
  <2>5. QED
    BY <1>3, <1>4, <2>2, <2>3, <2>4 DEF Landed, p, c
<1>11. CASE srv.cmd = "PUT" /\ p.name = None /\ Receiving(got)
  <2>1. /\ srv.fd # 0 /\ srv.inbox[srv.fd].name = name /\ Len(srv.inbox[srv.fd].data) = got
        /\ strayed \/ srv.inbox[srv.fd].dir = object.at
    BY <1>11 DEF Receiving, name
  <2>2. srv.fd \in 1..Len(srv.inbox)
    BY <1>3, <2>1, ServerFields
  <2>3. srv.inbox[srv.fd].data = Chunked(name, got)
    BY <2>1, <2>2 DEF Whole, Prefix
  <2>4. Appended(s, p, T)
    BY <1>1, <1>4, <1>6, <2>1, StreamOpen DEF T
  <2>5. T.inbox[srv.fd].data = Chunked(name, Sent)
    <3>1. T.inbox[srv.fd].data = srv.inbox[srv.fd].data \o p.data
      BY <1>4, <2>4 DEF Appended
    <3>2. Chunked(name, got) \o p.data = Chunked(name, Sent)
      BY <1>1, <1>2, <1>7, PartJoin
    <3>3. QED
      BY <2>3, <3>1, <3>2
  <2>6. \A j \in 1..Len(T.inbox) :
          j # srv.fd => j \in 1..Len(srv.inbox) /\ T.inbox[j] = srv.inbox[j]
    BY <1>4, <1>8, <2>4 DEF Appended, Kept
  <2>7. /\ T.rsp = "SUCCESS" /\ T.fd = IF p.end THEN 0 ELSE srv.fd
        /\ T.inbox[srv.fd].name = name
        /\ strayed \/ T.inbox[srv.fd].dir = object.at
        /\ srv.fd \in 1..Len(T.inbox)
    BY <1>3, <1>4, <2>1, <2>2, <2>4 DEF Appended
  <2>8. PICK i : i = srv.fd
    OBVIOUS
  <2>9. QED
    BY <2>5, <2>6, <2>7, <2>8 DEF Landed, p, name
<1>12. CASE srv.cmd = "PUT" /\ p.name = None /\ Denied
  <2>1. s.fd = 0 /\ s.name = None
    BY <1>4, <1>12 DEF Denied
  <2>2. T.inbox = s.inbox /\ T.fd = 0 /\ T.rsp = "BAD_REQUEST"
    BY <1>1, <1>4, <1>5, <2>1, StreamDenied DEF T
  <2>3. QED
    BY <1>4, <2>2 DEF Landed
<1>13. QED
  BY <1>2, <1>9, <1>10, <1>11, <1>12

(* The answer to the packet.                                                *)
LEMMA PacketAnswered ==
  ASSUME Typed, Stages, Whole, toServer # None, object.op = "PUT", Arriving,
         object # None /\ fd # None => fd.file = object.file,
         faults \subseteq faults',
         UNCHANGED <<fd, object, strayed>>,
         NEW t \in Servers, t.cmd = "PUT", Landed(t),
         IF toServer.final \/ t.rsp # "SUCCESS"
           THEN toClient' = t.rsp /\ srv' = ReqDone(t)
           ELSE toClient' = "CONTINUE" /\ srv' = t
  PROVE  Whole' /\ Answered'
<1> DEFINE c == object.file.chunks
           name == object.file.name
<1>1. /\ object.file \in Files /\ c \in Nat /\ name \in Names /\ Sent \in 0..c
      /\ Chunks(object.file) = Chunked(name, c)
      /\ (toServer.end => Sent = c) /\ toServer.end \in BOOLEAN
      /\ (toServer.final <=> toServer.end) /\ (toServer.end <=> fd = None)
  BY PacketOfFile
<1>2. /\ Len(t.inbox) \in Nat /\ t.fd <= Len(t.inbox)
      /\ srv'.inbox = t.inbox /\ srv'.fd = t.fd
      /\ toServer.final \/ t.rsp # "SUCCESS" => srv'.cmd = None
  BY ZenonT(60), ServerFields, DoneFields
<1>3. Sent' = Sent
  BY DEF Sent
<1> HIDE DEF c, name
<1>4. CASE /\ t.rsp = "SUCCESS"
           /\ \E i \in 1..Len(t.inbox) :
                /\ t.fd = IF toServer.end THEN 0 ELSE i
                /\ t.inbox[i].name = object.file.name
                /\ t.inbox[i].data = Chunked(object.file.name, Sent)
                /\ strayed \/ t.inbox[i].dir = object.at
                /\ \A j \in 1..Len(t.inbox) :
                     j # i => j \in 1..Len(srv.inbox) /\ t.inbox[j] = srv.inbox[j]
  <2>1. PICK i \in 1..Len(t.inbox) :
          /\ t.fd = IF toServer.end THEN 0 ELSE i
          /\ t.inbox[i].name = name
          /\ t.inbox[i].data = Chunked(name, Sent)
          /\ strayed \/ t.inbox[i].dir = object.at
          /\ \A j \in 1..Len(t.inbox) :
               j # i => j \in 1..Len(srv.inbox) /\ t.inbox[j] = srv.inbox[j]
    BY <1>4 DEF name
  <2>2. Len(t.inbox[i].data) = Sent
    BY <1>1, <2>1, ChunkSeq
  <2>3. \A j \in 1..Len(t.inbox) : Prefix(t.inbox[j])
    <3>1. Prefix(t.inbox[i])
      BY <2>1, <2>2 DEF Prefix
    <3>2. \A j \in 1..Len(t.inbox) : j # i => Prefix(t.inbox[j])
      BY <2>1 DEF Whole
    <3>3. QED
      BY <3>1, <3>2
  <2>4. Whole'
    BY <1>2, <2>3 DEF Whole, Prefix
  <2>5. i # 0
    BY <1>2
  <2>6. CASE toServer.end
    <3>1. srv'.fd = 0 /\ srv'.cmd = None /\ toClient' = "SUCCESS"
      BY <1>1, <1>2, <1>4, <2>1, <2>6
    <3>2. t.inbox[i].data = Chunks(object.file)
      BY <1>1, <2>1, <2>6
    <3>3. /\ i \in 1..Len(srv'.inbox) /\ i # srv'.fd
          /\ srv'.inbox[i].name = object'.file.name
          /\ srv'.inbox[i].data = Chunks(object'.file)
          /\ strayed' \/ srv'.inbox[i].dir = object'.at
      BY <1>2, <2>1, <2>5, <3>1, <3>2 DEF name
    <3>4. Idle'
      BY <3>1 DEF Idle
    <3>5. Stored(object)'
      BY <3>3 DEF Stored
    <3>6. QED
      BY <2>4, <3>1, <3>4, <3>5 DEF Answered
  <2>7. CASE ~toServer.end
    <3>1. toClient' = "CONTINUE" /\ srv' = t /\ fd' # None /\ t.fd = i
      BY <1>1, <1>4, <2>1, <2>7
    <3>2. Receiving(Sent)'
      BY <1>3, <2>1, <2>2, <2>5, <3>1 DEF Receiving, name
    <3>3. QED
      BY <2>4, <3>1, <3>2 DEF Answered
  <2>8. QED
    BY <2>6, <2>7
<1>5. CASE /\ t.inbox = srv.inbox /\ t.fd = 0
           /\ \/ t.rsp = "BAD_REQUEST"
              \/ /\ t.rsp = "SUCCESS" /\ t.name = None /\ "create" \in faults'
                 /\ toServer.end => object.file.chunks = 0
  <2>1. Whole'
    BY <1>2, <1>5 DEF Whole, Prefix
  <2>2. CASE t.rsp = "BAD_REQUEST"
    <3>1. toClient' = "BAD_REQUEST" /\ srv'.fd = 0 /\ srv'.cmd = None
      BY <1>2, <1>5, <2>2
    <3>2. QED
      BY <2>1, <3>1 DEF Answered, Idle
  <2>3. CASE /\ t.rsp = "SUCCESS" /\ t.name = None /\ "create" \in faults'
             /\ toServer.end => object.file.chunks = 0
    <3>1. CASE toServer.end
      <4>1. toClient' = "SUCCESS" /\ srv'.fd = 0 /\ srv'.cmd = None
        BY <1>1, <1>2, <1>5, <2>3, <3>1
      <4>2. Stored(object)'
        BY <2>3, <3>1 DEF Stored
      <4>3. QED
        BY <2>1, <4>1, <4>2 DEF Answered, Idle
    <3>2. CASE ~toServer.end
      <4>1. toClient' = "CONTINUE" /\ srv' = t /\ fd' # None
        BY <1>1, <2>3, <3>2
      <4>2. Denied'
        BY <1>5, <2>3, <4>1 DEF Denied
      <4>3. QED
        BY <2>1, <4>1, <4>2 DEF Answered
    <3>3. QED
      BY <3>1, <3>2
  <2>4. QED
    BY <1>5, <2>2, <2>3
<1>6. QED
  BY <1>4, <1>5 DEF Landed

LEMMA ReceivesMoves ==
  ASSUME Typed, Stages, Synced, Place, [Next]_vars, Clean', Moves, Receives
  PROVE  Moves'
<1>1. /\ ~srv.finished /\ toServer # None /\ toServer' = None
      /\ UNCHANGED <<clientVars, object, link, spc>>
      /\ object # None /\ object \in Requests /\ toServer.op = object.op
      /\ srv' \in Servers /\ faults \subseteq faults'
      /\ Kept(srv, srv')
      /\ object.op # "PUT" =>
           srv'.inbox = srv.inbox /\ srv'.fd = srv.fd /\ srv'.cmd = None
  BY ReceivesShape
<1>2. /\ UNCHANGED <<step, finished, success, fd, reported, strayed, object>>
      /\ "timeout" \notin faults
  BY <1>1, CleanBefore DEF clientVars
<1>3. ~finished
  BY <1>1, <1>2 DEF Synced
<1>4. Len(srv.inbox) \in Nat /\ Len(srv'.inbox) \in Nat /\ srv \in Servers /\ srv.rsp = "SUCCESS"
  BY <1>1, ServerFields DEF Typed, ServerTyped
<1>5. Reports'
  <2>1. \A v : Stored(v) => Stored(v)'
    BY <1>1, <1>2, <1>4, StoredStays
  <2>2. QED
    BY <1>2, <2>1 DEF Moves, Reports
<1>6. Result'
  BY <1>2, <1>3 DEF Result
<1>7. CASE object.op # "PUT"
  <2>1. Idle'
    BY <1>1, <1>7 DEF Moves, Quiet, Idle
  <2>2. Whole'
    BY <1>1, <1>7 DEF Moves, Whole, Prefix
  <2>3. Quiet' /\ OfOneFile'
    BY <1>1, <1>2, <1>7, <2>1 DEF Quiet, OfOneFile
  <2>4. QED
    BY <1>5, <1>6, <2>2, <2>3 DEF Moves
<1>8. CASE object.op = "PUT"
  <2>1. /\ Arriving /\ Whole
        /\ object # None /\ fd # None => fd.file = object.file
    BY <1>1, <1>8 DEF Moves, OfOneFile
  <2>2. strayed \/ srv.cwd = object.at
    BY <1>1, <1>2, <1>8, PlaceOfPacket DEF InPlace
  <2>3. toServer \in Packets
    BY <1>1 DEF Typed, LibraryTyped
  <2>4. ~Mistaken
    BY <1>1, <1>8 DEF Mistaken, Typed, ServerTyped, Command
  <2>5. PICK creates \in BOOLEAN, writes \in BOOLEAN : Taking(toServer, creates, writes)
    BY <2>4, ReceivesIs
  <2> DEFINE s == Joined(toServer)
             t == Stream(s, toServer, creates, writes)
             u == IF toServer.final THEN Requested(t, creates) ELSE t
  <2>6. /\ Faulted(toServer, Joined(toServer), creates, writes)
        /\ IF toServer.final \/ u.rsp # "SUCCESS"
             THEN toClient' = u.rsp /\ srv' = ReqDone(u)
             ELSE toClient' = "CONTINUE" /\ srv' = u
    BY <2>5 DEF Taking
  <2>7. s \in Servers /\ s.cmd = "PUT"
    BY <1>1, <1>4, <1>8, <2>3, JoinedFields
  <2>8. t \in Servers /\ t.cmd = "PUT"
    BY <2>3, <2>7, StreamFields DEF Same
  <2>9. Landed(t)
    BY <1>1, <1>8, <2>1, <2>2, <2>6, PacketLands
  <2> HIDE DEF s, t
  <2>10. u = t
    BY <2>8, RequestedFields
  <2>11. IF toServer.final \/ t.rsp # "SUCCESS"
           THEN toClient' = t.rsp /\ srv' = ReqDone(t)
           ELSE toClient' = "CONTINUE" /\ srv' = t
    BY <2>6, <2>10
  <2>12. Whole' /\ Answered'
    BY <1>1, <1>2, <1>8, <2>1, <2>8, <2>9, <2>11, PacketAnswered
  <2>13. Quiet' /\ OfOneFile'
    BY <1>1, <1>2, <1>8, <2>1, <2>12 DEF Quiet, OfOneFile
  <2>14. QED
    BY <1>5, <1>6, <2>12, <2>13 DEF Moves
<1>9. QED
  BY <1>7, <1>8

LEMMA NextTransfer ==
  ASSUME Typed, Stages, Synced, Place, Transfer, [Next]_vars
  PROVE  Transfer'
<1> SUFFICES ASSUME Clean'
             PROVE  Moves'
  BY DEF Transfer, Moves
<1>0. /\ Clean /\ "timeout" \notin faults /\ "timeout" \notin faults'
      /\ "read" \notin faults' /\ "write" \notin faults'
  BY CleanBefore
<1>a. Moves
  BY <1>0 DEF Transfer, Moves
<1>1. CASE UNCHANGED vars
  <2>1. /\ link = "down" => link' = "down"
        /\ toServer' = toServer /\ toClient' = toClient
        /\ UNCHANGED <<step, finished, success, fd, object, srv, reported>>
    BY <1>1 DEF vars, clientVars
  <2>2. QED
    BY <1>a, <2>1, StillMoves
<1>2. CASE TransportConnects
  <2>1. /\ link = "down" => link' = "down"
        /\ toServer' = toServer /\ toClient' = toClient
        /\ UNCHANGED <<step, finished, success, fd, object, srv, reported>>
    BY <1>2 DEF TransportConnects
  <2>2. QED
    BY <1>a, <2>1, StillMoves
<1>3. CASE ircp_cli_connect
  <2>1. /\ step = None /\ link # "none"
        /\ MaySend(Connect, None, fd) /\ cli_sync_request(Connect, None, fd)
        /\ toClient' = toClient /\ link' = link /\ srv' = srv /\ reported' = reported
        /\ Connect.op # "PUT"
    BY <1>3, ConnectCase DEF Connect, Visit
  <2>2. QED
    BY <1>a, <2>1, StartMoves
<1>4. CASE NextArgument
  <2>1. /\ link = "down" => link' = "down"
        /\ toServer' = toServer /\ toClient' = toClient
        /\ UNCHANGED <<step, finished, success, fd, object, srv, reported>>
    BY <1>4 DEF NextArgument
  <2>2. QED
    BY <1>a, <2>1, StillMoves
<1>5. CASE ircp_visit
  BY <1>5, <1>a, VisitMoves
<1>6. CASE ircp_cli_disconnect
  <2>1. /\ step = None /\ link # "none"
        /\ MaySend(Disconnect, None, fd) /\ cli_sync_request(Disconnect, None, fd)
        /\ toClient' = toClient /\ link' = link /\ srv' = srv /\ reported' = reported
        /\ Disconnect.op # "PUT"
    BY <1>6, DisconnectCase DEF Disconnect, Visit
  <2>2. QED
    BY <1>a, <2>1, StartMoves
<1>7. CASE HandleInput
  BY <1>7, <1>a, HandleInputMoves
<1>8. CASE Done
  BY <1>8, <1>a, DoneMoves
<1>9. CASE LinkLost
  BY <1>9, <1>a, <1>0, LinkLostMoves
<1>10. CASE Receives
  BY <1>10, <1>a, ReceivesMoves
<1>11. CASE ServerEnds
  <2>1. /\ link = "down" => link' = "down"
        /\ toServer' = None /\ toClient' = toClient
        /\ UNCHANGED <<step, finished, success, fd, object, srv, reported>>
    BY <1>11 DEF ServerEnds, clientVars
  <2>2. QED
    BY <1>a, <2>1, StillMoves
<1>12. CASE TimesOut
  BY <1>12, <1>0 DEF TimesOut, Fault
<1>13. CASE LinkBreaks
  <2>1. /\ link = "down" => link' = "down"
        /\ toServer' = None /\ toClient' = None
        /\ UNCHANGED <<step, finished, success, fd, object, srv, reported>>
    BY <1>13 DEF LinkBreaks, clientVars
  <2>2. QED
    BY <1>a, <2>1, StillMoves
<1>14. QED
  BY <1>1, <1>2, <1>3, <1>4, <1>5, <1>6, <1>7, <1>8, <1>9, <1>10, <1>11, <1>12, <1>13
     DEF Next, Client, Server

LEMMA Inductive == Spec => []IInv
<1>1. Init => IInv
  BY InitTyped, InitSynced, InitPlace, InitMoves DEF IInv, Transfer, Moves
<1>2. IInv /\ [Next]_vars => IInv'
  BY NextTyped, NextSynced, NextPlace, NextTransfer DEF IInv
<1>3. QED
  BY <1>1, <1>2, PTL DEF Spec

LEMMA InboxIs ==
  ASSUME Typed
  PROVE  ToSet(srv.inbox) = {srv.inbox[i] : i \in 1..Len(srv.inbox)}
<1>1. srv.inbox \in Seq(Stored1)
  BY ServerFields DEF Typed, ServerTyped
<1>2. DOMAIN srv.inbox = 1..Len(srv.inbox)
  BY <1>1
<1>3. QED
  BY <1>2 DEF ToSet

(* What the server stores under a name is the beginning of the file of that *)
(* name: for any files and arguments, whatever else fails.                  *)
THEOREM FilesUnmixed == Spec => []Unmixed
<1>1. IInv => Unmixed
  <2>1. SUFFICES ASSUME IInv, Clean, NEW f \in ToSet(srv.inbox)
                 PROVE  f.data = [k \in 1..Len(f.data) |-> <<f.name, k>>]
    BY DEF Unmixed, Clean
  <2>2. PICK i \in 1..Len(srv.inbox) : f = srv.inbox[i]
    BY <2>1, InboxIs DEF IInv
  <2>3. Prefix(srv.inbox[i])
    BY <2>1 DEF IInv, Transfer, Whole
  <2>4. QED
    BY <2>2, <2>3 DEF Prefix, Chunked
<1>2. QED
  BY <1>1, Inductive, PTL

(* A file that ircp reports as sent is stored whole at the server, in the   *)
(* directory that the walk had it in: for any files and arguments.          *)
THEOREM ReportedStored == Spec => []ReportedIsStored
<1>1. IInv => ReportedIsStored
  <2>1. SUFFICES ASSUME IInv, Clean, NEW v \in reported
                 PROVE  \/ "create" \in faults /\ v.file.chunks = 0
                        \/ \E f \in ToSet(srv.inbox) :
                             /\ f.name = v.file.name /\ f.data = Chunks(v.file)
                             /\ strayed \/ f.dir = v.at
    BY DEF ReportedIsStored, Clean
  <2>2. Stored(v)
    BY <2>1 DEF IInv, Transfer, Reports
  <2>3. ASSUME NEW i \in 1..Len(srv.inbox),
               srv.inbox[i].name = v.file.name, srv.inbox[i].data = Chunks(v.file),
               strayed \/ srv.inbox[i].dir = v.at
        PROVE  \E f \in ToSet(srv.inbox) :
                 /\ f.name = v.file.name /\ f.data = Chunks(v.file)
                 /\ strayed \/ f.dir = v.at
    <3>1. srv.inbox[i] \in ToSet(srv.inbox)
      BY <2>1, InboxIs DEF IInv
    <3>2. QED
      BY <2>3, <3>1
  <2>4. QED
    BY <2>2, <2>3 DEF Stored
<1>2. QED
  BY <1>1, Inductive, PTL
=============================================================================
