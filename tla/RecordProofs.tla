----------------------------- MODULE RecordProofs -----------------------------
(***************************************************************************)
(* What the tools leave on disk over kills, power losses, edits and        *)
(* retries: the records of a suite of games (BenchRun, what MCBench checks *)
(* for two jobs) and the evidence of a release (ReleaseRun).               *)
(*                                                                         *)
(* Suites, for any jobs, versions of the sources, lengths, intervals of    *)
(* checkpoints and bounds.  A game in memory or in a file is determined by *)
(* its sources and its number of pieces; the invariant says so of every    *)
(* place one can be in, and follows how far the file that would be resumed *)
(* is behind, whichever of the two files that is at the moment.            *)
(*                                                                         *)
(* Releases, for any jobs, checks, numbers of commands and bounds.  The    *)
(* invariant follows one attempt from its start to its record: while a     *)
(* gate of this version runs there is no record, the logs it has written   *)
(* are its own, and a list of commands that all exited 0 is in clean       *)
(* before it is recorded.                                                  *)
(***************************************************************************)
EXTENDS BenchRun, ReleaseRun, SequenceTheorems, TLAPS

(* The game of the sources v after m pieces, when nothing is lost.          *)
UpTo(v, m) == [i \in 1 .. m |-> <<v, i-1>>]
GameAt(v, m) == [i |-> m, rng |-> m, moves |-> UpTo(v, m)]

(* What a checkpoint file of the game q may hold.                           *)
FileOf(q) ==
    {NoFile, TornFile}
        \cup {Document(q, GameAt(q[2], m), FALSE) : m \in {i \in 0 .. Length[q[1]] : i % Every = 0}}
        \cup {Document(q, GameAt(q[2], Length[q[1]]), TRUE)}

FilesInv ==
    /\ DOMAIN checkpoint = QualityKeys /\ DOMAIN retained = QualityKeys
    /\ DOMAIN record = QualityKeys
    /\ \A q \in QualityKeys :
           /\ checkpoint[q] \in FileOf(q) /\ retained[q] \in FileOf(q)
           /\ record[q] \in {NoFile, TornFile, Outcome(Uninterrupted(q[1], q[2]))}

TreeInv == sources \in Version /\ frozen \in Version \cup {NoFile}

Playing == pc \in {"play", "keep", "publish"}

ProcessInv ==
    /\ pc \in {"down", "next", "play", "keep", "publish", "record", "unlink", "failing"}
    /\ closure \in Version
    /\ pc = "next" => n \in Nat \ {0}
    /\ pc \notin {"down", "next"} => n \in DOMAIN Suite
    /\ Playing => \E m \in 0 .. Length[Suite[n]] : game = GameAt(closure, m)
    /\ pc \in {"keep", "publish"} =>
           pending \in FileOf(JobKey) /\ pending.kind = "checkpoint" /\ pending.game = game
    /\ pc \in {"record", "unlink"} => game.moves = UpTo(closure, Length[Suite[n]])

(* A resumed game is less than one checkpoint interval ahead of what a stop *)
(* would leave; it is exactly one ahead when a checkpoint is due or the cap *)
(* is reached.                                                              *)
OnDisk == Loaded(JobKey, checkpoint[JobKey], retained[JobKey]).i
Near ==
    /\ OnDisk <= game.i /\ game.i <= OnDisk + Every
    /\ pc = "play" /\ game.i = OnDisk + Every => game.i = Length[Suite[n]]
NearInv ==
    /\ pc \in {"play", "keep"} => Near
    /\ pc = "publish" /\ retained[JobKey] # TornFile => Near
    /\ pc = "failing" /\ mode = "summary" /\ retained[JobKey] # TornFile => Near
    /\ pc = "record" /\ mode = "summary" => checkpoint[JobKey] = Document(JobKey, game, TRUE)
    /\ pc = "unlink" => Complete(JobKey)

SuiteIInv == TreeInv /\ FilesInv /\ ProcessInv /\ NearInv

-----------------------------------------------------------------------------
LEMMA JobOfSuite ==
    ASSUME ProcessInv, pc \notin {"down", "next"}
    PROVE  /\ n \in DOMAIN Suite /\ Suite[n] \in Key /\ JobKey \in QualityKeys
           /\ JobKey = <<Suite[n], closure>> /\ JobKey[1] = Suite[n] /\ JobKey[2] = closure
           /\ Length[Suite[n]] \in Nat /\ Length[Suite[n]] <= Cap
  <1>1. n \in DOMAIN Suite /\ closure \in Version
    BY DEF ProcessInv
  <1>2. Suite[n] \in Key
    BY <1>1, SuiteAssumption, ElementOfSeq, LenProperties
  <1> QED
    BY <1>1, <1>2, GameAssumption DEF JobKey, QualityKey, QualityKeys

LEMMA NextJob ==
    ASSUME ProcessInv, pc = "next", n <= Len(Suite)
    PROVE  /\ n \in DOMAIN Suite /\ Suite[n] \in Key /\ JobKey \in QualityKeys
           /\ JobKey = <<Suite[n], closure>> /\ JobKey[1] = Suite[n] /\ JobKey[2] = closure
           /\ Length[Suite[n]] \in Nat /\ Length[Suite[n]] <= Cap
  <1>1. n \in DOMAIN Suite /\ closure \in Version
    BY SuiteAssumption, LenProperties DEF ProcessInv
  <1>2. Suite[n] \in Key
    BY <1>1, SuiteAssumption, ElementOfSeq, LenProperties
  <1> QED
    BY <1>1, <1>2, GameAssumption DEF JobKey, QualityKey, QualityKeys

LEMMA MovesAreSequence ==
    ASSUME NEW v, NEW m \in Nat
    PROVE  UpTo(v, m) \in Seq({v} \X Int) /\ Len(UpTo(v, m)) = m
  <1>1. UpTo(v, m) \in [1 .. m -> {v} \X Int]
    BY DEF UpTo
  <1>2. UpTo(v, m) \in Seq({v} \X Int)
    BY <1>1, SeqDef
  <1> QED
    BY <1>1, <1>2, LenProperties

LEMMA FreshIsStart ==
    ASSUME NEW v
    PROVE  Fresh = GameAt(v, 0)
  <1>1. UpTo(v, 0) = <<>>
    BY DEF UpTo
  <1> QED
    BY <1>1 DEF Fresh, GameAt

(* A piece more is the next game of the same sources: the generator has     *)
(* advanced with the index.                                                 *)
LEMMA PlayedIsNext ==
    ASSUME NEW v, NEW m \in Nat
    PROVE  Played(GameAt(v, m), v) = GameAt(v, m + 1)
  <1> DEFINE s == UpTo(v, m)
             t == UpTo(v, m + 1)
  <1>1. s \in Seq({v} \X Int) /\ Len(s) = m /\ t \in Seq({v} \X Int) /\ Len(t) = m + 1
    <2>1. m + 1 \in Nat
      OBVIOUS
    <2> QED
      BY <2>1, MovesAreSequence
  <1>2. <<v, m>> \in {v} \X Int
    OBVIOUS
  <1>3. /\ Append(s, <<v, m>>) \in Seq({v} \X Int) /\ Len(Append(s, <<v, m>>)) = m + 1
        /\ \A i \in 1 .. m : Append(s, <<v, m>>)[i] = s[i]
        /\ Append(s, <<v, m>>)[m + 1] = <<v, m>>
    <2> HIDE DEF s
    <2> QED
      BY <1>1, <1>2, AppendProperties
  <1>4. (\A i \in 1 .. m : s[i] = <<v, i-1>>) /\ \A i \in 1 .. m + 1 : t[i] = <<v, i-1>>
    BY DEF UpTo
  <1>5. t[m + 1] = <<v, m>>
    BY <1>4
  <1>6. \A i \in 1 .. m + 1 : Append(s, <<v, m>>)[i] = t[i]
    <2> HIDE DEF s, t
    <2> SUFFICES ASSUME NEW i \in 1 .. m + 1 PROVE Append(s, <<v, m>>)[i] = t[i]
      OBVIOUS
    <2>1. CASE i = m + 1
      BY <2>1, <1>3, <1>5
    <2>2. CASE i # m + 1
      <3>1. i \in 1 .. m
        BY <2>2
      <3> QED
        BY <3>1, <1>3, <1>4
    <2> QED
      BY <2>1, <2>2
  <1>7. Append(s, <<v, m>>) = t
    <2> HIDE DEF s, t
    <2> QED
      BY <1>1, <1>3, <1>6, SeqEqual
  <1> QED
    BY <1>7 DEF Played, GameAt

(* A document that can be resumed is at a multiple of the interval.         *)
LEMMA ResumedAtInterval ==
    ASSUME NEW q \in QualityKeys, NEW f \in FileOf(q), f.kind = "checkpoint"
    PROVE  \E m \in 0 .. Length[q[1]] : m % Every = 0 /\ Resumed(q, f) = GameAt(q[2], m)
  <1>1. Length[q[1]] \in Nat /\ Every \in Nat \ {0}
    BY GameAssumption DEF QualityKeys
  <1>2. CASE f \in {Document(q, GameAt(q[2], m), FALSE) : m \in {i \in 0 .. Length[q[1]] : i % Every = 0}}
    BY <1>2 DEF Document, Resumed
  <1>3. CASE f = Document(q, GameAt(q[2], Length[q[1]]), TRUE)
    <2>1. Resumed(q, f) = GameAt(q[2], 0)
      BY <1>3, FreshIsStart DEF Document, Resumed
    <2>2. 0 % Every = 0 /\ 0 \in 0 .. Length[q[1]]
      BY <1>1
    <2> QED
      BY <2>1, <2>2
  <1>4. f # NoFile /\ f # TornFile
    BY DEF NoFile, TornFile
  <1> QED
    BY <1>2, <1>3, <1>4 DEF FileOf

LEMMA LoadedAtInterval ==
    ASSUME NEW q \in QualityKeys, NEW f \in FileOf(q), NEW p \in FileOf(q)
    PROVE  \E m \in 0 .. Length[q[1]] : m % Every = 0 /\ Loaded(q, f, p) = GameAt(q[2], m)
  <1>1. Length[q[1]] \in Nat /\ Every \in Nat \ {0}
    BY GameAssumption DEF QualityKeys
  <1>2. Fresh = GameAt(q[2], 0) /\ 0 % Every = 0 /\ 0 \in 0 .. Length[q[1]]
    BY <1>1, FreshIsStart
  <1> QED
    BY <1>2, ResumedAtInterval DEF Loaded

LEMMA NextMultiple ==
    ASSUME NEW e \in Nat \ {0}, NEW m \in Nat, m % e = 0
    PROVE  (m + e) % e = 0
  <1> DEFINE k == m \div e
             d == (m + e) \div e
             r == (m + e) % e
             j == d - k - 1
  <1>1. k \in Int /\ m = e * k
    OBVIOUS
  <1>2. d \in Int /\ r \in 0 .. e-1 /\ m + e = e * d + r
    OBVIOUS
  <1> HIDE DEF k, d, r
  <1>3. j \in Int /\ e * j = -r
    BY <1>1, <1>2
  <1> HIDE DEF j
  <1>4. j < 1
    <2>1. ASSUME j >= 1 PROVE FALSE
      <3>1. e * j >= e
        BY <1>3, <2>1
      <3> QED
        BY <1>2, <1>3, <3>1
    <2> QED
      BY <1>3, <2>1
  <1>5. j > -1
    <2>1. ASSUME j <= -1 PROVE FALSE
      <3>1. e * j <= -e
        BY <1>3, <2>1
      <3> QED
        BY <1>2, <1>3, <3>1
    <2> QED
      BY <1>3, <2>1
  <1>6. j = 0
    BY <1>3, <1>4, <1>5
  <1> QED
    BY <1>2, <1>3, <1>6 DEF r
-----------------------------------------------------------------------------
(* The inductive invariant.                                                 *)
LEMMA SuiteStarts == SuiteInit => SuiteIInv
  <1> SUFFICES ASSUME SuiteInit PROVE SuiteIInv
    OBVIOUS
  <1>1. First \in Version
    BY SuiteAssumption DEF First
  <1> QED
    BY <1>1 DEF SuiteInit, SuiteIInv, TreeInv, FilesInv, ProcessInv, NearInv, Playing, FileOf

(* Freezing, editing and analysing leave the process and its files alone.   *)
LEMMA OutsideKeeps ==
    ASSUME SuiteIInv, UNCHANGED <<checkpoints, record, pc, n, closure, mode, game, pending>>,
           sources' \in Version, frozen' \in Version \cup {NoFile}
    PROVE  SuiteIInv'
  BY DEF SuiteIInv, TreeInv, FilesInv, ProcessInv, NearInv, Near, OnDisk, Playing, JobKey,
         Complete, checkpoints

LEMMA LaunchKeeps ==
    ASSUME SuiteIInv, Launch
    PROVE  SuiteIInv'
  BY DEF SuiteIInv, TreeInv, FilesInv, ProcessInv, NearInv, Playing, Launch, tree, files,
         checkpoints, outcomes

LEMMA DownKeeps ==
    ASSUME SuiteIInv, Down, UNCHANGED tree, FilesInv'
    PROVE  SuiteIInv'
  <1>1. First \in Version
    BY SuiteAssumption DEF First
  <1> QED
    BY <1>1 DEF SuiteIInv, TreeInv, ProcessInv, NearInv, Playing, Down, tree

LEMMA FilesStay ==
    ASSUME FilesInv, UNCHANGED <<checkpoints, record>>
    PROVE  FilesInv'
  BY DEF FilesInv, checkpoints

LEMMA FilesReplaced ==
    ASSUME FilesInv, NEW q \in QualityKeys,
           NEW f \in FileOf(q), NEW g \in FileOf(q),
           NEW r \in {NoFile, TornFile, Outcome(Uninterrupted(q[1], q[2]))},
           checkpoint' = [checkpoint EXCEPT ![q] = f] \/ checkpoint' = checkpoint,
           retained' = [retained EXCEPT ![q] = g] \/ retained' = retained,
           record' = [record EXCEPT ![q] = r] \/ record' = record
    PROVE  FilesInv'
  <1>1. /\ DOMAIN checkpoint' = QualityKeys
        /\ \A p \in QualityKeys : checkpoint'[p] \in FileOf(p)
    BY DEF FilesInv
  <1>2. /\ DOMAIN retained' = QualityKeys
        /\ \A p \in QualityKeys : retained'[p] \in FileOf(p)
    BY DEF FilesInv
  <1>3. /\ DOMAIN record' = QualityKeys
        /\ \A p \in QualityKeys : record'[p] \in {NoFile, TornFile, Outcome(Uninterrupted(p[1], p[2]))}
    BY DEF FilesInv
  <1> QED
    BY <1>1, <1>2, <1>3 DEF FilesInv

(* Between two jobs.                                                        *)
LEMMA ReuseKeeps ==
    ASSUME SuiteIInv, Reuse
    PROVE  SuiteIInv'
  <1>1. FilesInv'
    BY FilesStay DEF SuiteIInv, Reuse, files, outcomes
  <1> QED
    BY <1>1 DEF SuiteIInv, TreeInv, ProcessInv, NearInv, Playing, Reuse, tree, position

LEMMA StartGameKeeps ==
    ASSUME SuiteIInv, StartGame
    PROVE  SuiteIInv'
  <1>1. FilesInv'
    BY FilesStay DEF SuiteIInv, StartGame, files, outcomes
  <1>2. /\ n \in DOMAIN Suite /\ JobKey \in QualityKeys
        /\ JobKey[1] = Suite[n] /\ JobKey[2] = closure /\ Length[Suite[n]] \in Nat
    BY NextJob DEF SuiteIInv, StartGame
  <1>3. PICK m \in 0 .. Length[Suite[n]] :
            Loaded(JobKey, checkpoint[JobKey], retained[JobKey]) = GameAt(closure, m)
    BY <1>2, LoadedAtInterval DEF SuiteIInv, FilesInv
  <1>4. /\ pc' = "play" /\ n' = n /\ closure' = closure /\ JobKey' = JobKey
        /\ checkpoint' = checkpoint /\ retained' = retained
        /\ game' = Loaded(JobKey, checkpoint[JobKey], retained[JobKey])
    BY DEF StartGame, position, files, checkpoints, JobKey
  <1>5. game' = GameAt(closure, m)
    BY <1>3, <1>4
  <1>6. OnDisk' = game'.i /\ game'.i \in Nat /\ Every \in Nat \ {0}
    BY <1>2, <1>4, <1>5, GameAssumption DEF OnDisk, GameAt
  <1>7. NearInv'
    BY <1>4, <1>6 DEF NearInv, Near
  <1>8. ProcessInv'
    BY <1>2, <1>4, <1>5 DEF SuiteIInv, ProcessInv, Playing
  <1> QED
    BY <1>1, <1>7, <1>8 DEF SuiteIInv, TreeInv, StartGame, tree

LEMMA ReplayGameKeeps ==
    ASSUME SuiteIInv, ReplayGame
    PROVE  SuiteIInv'
  <1>1. FilesInv'
    BY FilesStay DEF SuiteIInv, ReplayGame, files, outcomes
  <1>2. n \in DOMAIN Suite
    BY NextJob DEF SuiteIInv, ReplayGame
  <1>3. game'.moves = UpTo(closure, Length[Suite[n]])
    BY DEF ReplayGame, Fresh, Uninterrupted, Terminal, UpTo
  <1>4. pc' = "record" /\ n' = n /\ closure' = closure /\ mode' = "replay"
    BY DEF ReplayGame, position
  <1>5. NearInv' /\ ProcessInv'
    BY <1>2, <1>3, <1>4 DEF SuiteIInv, NearInv, ProcessInv, Playing
  <1> QED
    BY <1>1, <1>5 DEF SuiteIInv, TreeInv, ReplayGame, tree

-----------------------------------------------------------------------------
(* In a game.                                                               *)
LEMMA LockPieceKeeps ==
    ASSUME SuiteIInv, LockPiece
    PROVE  SuiteIInv'
  <1>1. FilesInv'
    BY FilesStay DEF SuiteIInv, LockPiece, files, outcomes
  <1>2. /\ n \in DOMAIN Suite /\ JobKey \in QualityKeys
        /\ JobKey[1] = Suite[n] /\ JobKey[2] = closure
        /\ Length[Suite[n]] \in Nat /\ Length[Suite[n]] <= Cap
    BY JobOfSuite DEF SuiteIInv, LockPiece
  <1>3. Every \in Nat \ {0} /\ Cap \in Nat
    BY GameAssumption
  <1>4. PICK m \in 0 .. Length[Suite[n]] : game = GameAt(closure, m)
    BY DEF SuiteIInv, ProcessInv, Playing, LockPiece
  <1>5. game.i = m /\ m \in Nat /\ m + 1 \in 0 .. Length[Suite[n]]
    BY <1>2, <1>4 DEF LockPiece, Over, GameAt
  <1>6. game' = GameAt(closure, m + 1) /\ game'.i = m + 1
    BY <1>4, <1>5, PlayedIsNext DEF LockPiece, GameAt
  <1>7. OnDisk \in Nat /\ OnDisk % Every = 0
    BY <1>2, LoadedAtInterval DEF SuiteIInv, FilesInv, OnDisk, GameAt
  <1>8. OnDisk <= m /\ m < OnDisk + Every
    <2>1. OnDisk <= m /\ m <= OnDisk + Every
      BY <1>5 DEF SuiteIInv, NearInv, Near, LockPiece
    <2>2. m # OnDisk + Every
      BY <1>2, <1>5 DEF SuiteIInv, NearInv, Near, LockPiece
    <2> QED
      BY <1>3, <1>5, <1>7, <2>1, <2>2
  <1>9. /\ n' = n /\ closure' = closure /\ JobKey' = JobKey
        /\ checkpoint' = checkpoint /\ retained' = retained /\ OnDisk' = OnDisk
    BY DEF LockPiece, position, files, checkpoints, JobKey, OnDisk
  <1>10. CASE game'.i % Every = 0 /\ game'.i < Cap
    <2>1. pc' = "keep" /\ pending' = Document(JobKey, game', FALSE)
      BY <1>10 DEF LockPiece
    <2>2. m + 1 \in {i \in 0 .. Length[Suite[n]] : i % Every = 0}
      BY <1>5, <1>6, <1>10
    <2>3. pending' = Document(JobKey, GameAt(JobKey[2], m + 1), FALSE)
      BY <1>2, <1>6, <2>1
    <2>4. pending' \in FileOf(JobKey)
      BY <1>2, <2>2, <2>3 DEF FileOf
    <2>5. pending'.kind = "checkpoint" /\ pending'.game = game'
      BY <2>1 DEF Document
    <2>6. ProcessInv'
      BY <1>2, <1>5, <1>6, <1>9, <2>1, <2>4, <2>5 DEF SuiteIInv, ProcessInv, Playing
    <2>7. NearInv'
      BY <1>3, <1>5, <1>6, <1>7, <1>8, <1>9, <2>1 DEF NearInv, Near
    <2> QED
      BY <1>1, <2>6, <2>7 DEF SuiteIInv, TreeInv, LockPiece, tree
  <1>11. CASE ~(game'.i % Every = 0 /\ game'.i < Cap)
    <2>1. pc' = "play"
      BY <1>11 DEF LockPiece
    <2>2. m + 1 = OnDisk + Every => m + 1 = Length[Suite[n]]
      <3>1. SUFFICES ASSUME m + 1 = OnDisk + Every PROVE m + 1 = Length[Suite[n]]
        OBVIOUS
      <3>2. (m + 1) % Every = 0
        BY <1>3, <1>7, <3>1, NextMultiple
      <3>3. ~(m + 1 < Cap)
        BY <1>6, <1>11, <3>2
      <3> QED
        BY <1>2, <1>3, <1>5, <3>3
    <2>3. ProcessInv'
      BY <1>2, <1>5, <1>6, <1>9, <2>1 DEF SuiteIInv, ProcessInv, Playing
    <2>4. NearInv'
      BY <1>3, <1>5, <1>6, <1>7, <1>8, <1>9, <2>1, <2>2 DEF NearInv, Near
    <2> QED
      BY <1>1, <2>3, <2>4 DEF SuiteIInv, TreeInv, LockPiece, tree
  <1> QED
    BY <1>10, <1>11

LEMMA EndGameKeeps ==
    ASSUME SuiteIInv, EndGame
    PROVE  SuiteIInv'
  <1>1. FilesInv'
    BY FilesStay DEF SuiteIInv, EndGame, files, outcomes
  <1>2. /\ n \in DOMAIN Suite /\ JobKey \in QualityKeys
        /\ JobKey[1] = Suite[n] /\ JobKey[2] = closure /\ Length[Suite[n]] \in Nat
    BY JobOfSuite DEF SuiteIInv, EndGame
  <1>3. PICK m \in 0 .. Length[Suite[n]] : game = GameAt(closure, m)
    BY DEF SuiteIInv, ProcessInv, Playing, EndGame
  <1>4. game = GameAt(closure, Length[Suite[n]])
    BY <1>3 DEF EndGame, Over, GameAt
  <1>5. /\ pc' = "keep" /\ n' = n /\ closure' = closure /\ game' = game /\ JobKey' = JobKey
        /\ checkpoint' = checkpoint /\ retained' = retained /\ OnDisk' = OnDisk
        /\ pending' = Document(JobKey, game, TRUE)
    BY DEF EndGame, position, files, checkpoints, JobKey, OnDisk
  <1>6. pending' \in FileOf(JobKey) /\ pending'.kind = "checkpoint" /\ pending'.game = game
    BY <1>2, <1>4, <1>5 DEF FileOf, Document
  <1>7. ProcessInv'
    BY <1>2, <1>3, <1>5, <1>6 DEF SuiteIInv, ProcessInv, Playing
  <1>8. NearInv'
    BY <1>5 DEF SuiteIInv, NearInv, Near, EndGame
  <1> QED
    BY <1>1, <1>7, <1>8 DEF SuiteIInv, TreeInv, EndGame, tree

(* Whichever of the two files decided before the first rename still does,   *)
(* unless the current one was torn.                                         *)
LEMMA KeepKeeps ==
    ASSUME SuiteIInv, Keep
    PROVE  SuiteIInv'
  <1>1. n \in DOMAIN Suite /\ JobKey \in QualityKeys
    BY JobOfSuite DEF SuiteIInv, Keep
  <1>2. /\ pc' = "publish" /\ n' = n /\ closure' = closure /\ game' = game
        /\ pending' = pending /\ JobKey' = JobKey /\ record' = record
    BY DEF Keep, position, outcomes, JobKey
  <1>3. ProcessInv'
    BY <1>2 DEF SuiteIInv, ProcessInv, Playing, Keep
  <1>4. CASE checkpoint[JobKey] = NoFile
    <2>1. checkpoint' = checkpoint /\ retained' = retained
      BY <1>4 DEF Keep, checkpoints
    <2>2. FilesInv'
      BY <1>2, <2>1, FilesStay DEF SuiteIInv, checkpoints
    <2>3. OnDisk' = OnDisk
      BY <1>2, <2>1 DEF OnDisk
    <2>4. NearInv'
      BY <1>2, <2>3 DEF SuiteIInv, NearInv, Near, Keep
    <2> QED
      BY <1>3, <2>2, <2>4 DEF SuiteIInv, TreeInv, Keep, tree
  <1>5. CASE checkpoint[JobKey] # NoFile
    <2>1. /\ retained' = [retained EXCEPT ![JobKey] = checkpoint[JobKey]]
          /\ checkpoint' = [checkpoint EXCEPT ![JobKey] = NoFile]
      BY <1>5 DEF Keep
    <2>2. checkpoint[JobKey] \in FileOf(JobKey) /\ NoFile \in FileOf(JobKey)
      BY <1>1 DEF SuiteIInv, FilesInv, FileOf
    <2>3. FilesInv'
      BY <1>1, <1>2, <2>1, <2>2, FilesReplaced DEF SuiteIInv
    <2>4. retained'[JobKey] = checkpoint[JobKey] /\ checkpoint'[JobKey] = NoFile
      BY <1>1, <2>1 DEF SuiteIInv, FilesInv
    <2>5. checkpoint[JobKey] = TornFile \/ checkpoint[JobKey].kind = "checkpoint"
      BY <1>5, <2>2 DEF FileOf, Document
    <2>6. retained'[JobKey'] # TornFile => OnDisk' = OnDisk
      BY <1>2, <2>4, <2>5 DEF OnDisk, Loaded, NoFile
    <2>7. NearInv'
      BY <1>2, <2>6 DEF SuiteIInv, NearInv, Near, Keep
    <2> QED
      BY <1>3, <2>3, <2>7 DEF SuiteIInv, TreeInv, Keep, tree
  <1> QED
    BY <1>4, <1>5

LEMMA PublishKeeps ==
    ASSUME SuiteIInv, Publish
    PROVE  SuiteIInv'
  <1>1. /\ n \in DOMAIN Suite /\ JobKey \in QualityKeys
        /\ JobKey[1] = Suite[n] /\ JobKey[2] = closure /\ Length[Suite[n]] \in Nat
    BY JobOfSuite DEF SuiteIInv, Publish
  <1>2. pending \in FileOf(JobKey) /\ pending.kind = "checkpoint" /\ pending.game = game
    BY DEF SuiteIInv, ProcessInv, Publish
  <1>3. /\ n' = n /\ closure' = closure /\ game' = game /\ JobKey' = JobKey
        /\ checkpoint' = [checkpoint EXCEPT ![JobKey] = pending]
        /\ retained' = retained /\ record' = record
    BY DEF Publish, position, outcomes, JobKey
  <1>4. FilesInv'
    <2>1. retained[JobKey] \in FileOf(JobKey)
      BY <1>1 DEF SuiteIInv, FilesInv
    <2> QED
      BY <1>1, <1>2, <1>3, <2>1, FilesReplaced DEF SuiteIInv
  <1>5. checkpoint'[JobKey] = pending
    BY <1>1, <1>3 DEF SuiteIInv, FilesInv
  <1>6. pending # NoFile /\ pending # TornFile
    BY <1>2 DEF NoFile, TornFile
  <1>7. CASE pending.complete
    <2>1. pc' = "record"
      BY <1>7 DEF Publish
    <2>2. pending = Document(JobKey, GameAt(closure, Length[Suite[n]]), TRUE)
      BY <1>1, <1>2, <1>6, <1>7 DEF FileOf, Document
    <2>3. game.moves = UpTo(closure, Length[Suite[n]])
      BY <1>2, <2>2 DEF Document, GameAt
    <2>4. checkpoint'[JobKey'] = Document(JobKey', game', TRUE)
      BY <1>2, <1>3, <1>5, <2>2 DEF Document
    <2>5. ProcessInv' /\ NearInv'
      BY <1>1, <1>3, <2>1, <2>3, <2>4 DEF SuiteIInv, ProcessInv, NearInv, Playing
    <2> QED
      BY <1>4, <2>5 DEF SuiteIInv, TreeInv, Publish, tree
  <1>8. CASE ~pending.complete
    <2>1. pc' = "play"
      BY <1>8 DEF Publish
    <2>2. pending.identity = JobKey
      BY <1>2, <1>6 DEF FileOf, Document
    <2>3. OnDisk' = game.i
      BY <1>2, <1>3, <1>5, <1>8, <2>2 DEF OnDisk, Loaded, Resumed
    <2>4. PICK m \in 0 .. Length[Suite[n]] : game = GameAt(closure, m)
      BY DEF SuiteIInv, ProcessInv, Playing, Publish
    <2>5. game.i \in Nat /\ Every \in Nat \ {0}
      BY <1>1, <2>4, GameAssumption DEF GameAt
    <2>6. NearInv'
      BY <1>3, <2>1, <2>3, <2>5 DEF NearInv, Near
    <2>7. ProcessInv'
      BY <1>1, <1>3, <2>1, <2>4 DEF SuiteIInv, ProcessInv, Playing
    <2> QED
      BY <1>4, <2>6, <2>7 DEF SuiteIInv, TreeInv, Publish, tree
  <1> QED
    BY <1>7, <1>8

(* After a game.                                                            *)
LEMMA RecordGameKeeps ==
    ASSUME SuiteIInv, RecordGame
    PROVE  SuiteIInv'
  <1>1. /\ n \in DOMAIN Suite /\ JobKey \in QualityKeys
        /\ JobKey[1] = Suite[n] /\ JobKey[2] = closure
    BY JobOfSuite DEF SuiteIInv, RecordGame
  <1>2. game.moves = UpTo(closure, Length[Suite[n]])
    BY DEF SuiteIInv, ProcessInv, RecordGame
  <1>3. Terminal(Suite[n], game.moves) = Uninterrupted(JobKey[1], JobKey[2])
    BY <1>1, <1>2 DEF Uninterrupted, UpTo
  <1>4. /\ pc' = "unlink" /\ n' = n /\ closure' = closure /\ game' = game
        /\ checkpoint' = checkpoint /\ retained' = retained
        /\ record' = [record EXCEPT ![JobKey] = Outcome(Uninterrupted(JobKey[1], JobKey[2]))]
    BY <1>3 DEF RecordGame, position, checkpoints
  <1>5. FilesInv'
    <2>1. NoFile \in FileOf(JobKey)
      BY DEF FileOf
    <2> QED
      BY <1>1, <1>4, <2>1, FilesReplaced DEF SuiteIInv
  <1>6. Complete(JobKey)'
    BY <1>1, <1>4 DEF SuiteIInv, FilesInv, Complete, Outcome, JobKey
  <1>7. ProcessInv' /\ NearInv'
    BY <1>1, <1>2, <1>4, <1>6 DEF SuiteIInv, ProcessInv, NearInv, Playing
  <1> QED
    BY <1>5, <1>7 DEF SuiteIInv, TreeInv, RecordGame, tree

LEMMA NextJobKeeps ==
    ASSUME SuiteIInv, Unlink \/ RecordFailure
    PROVE  SuiteIInv'
  <1>1. FilesInv'
    BY FilesStay DEF SuiteIInv, Unlink, RecordFailure
  <1>2. n \in Nat
    <2>1. n \in DOMAIN Suite
      BY DEF SuiteIInv, ProcessInv, Unlink, RecordFailure
    <2> QED
      BY <2>1, SuiteAssumption, LenProperties
  <1>3. pc' = "next" /\ n' = n + 1 /\ closure' = closure /\ UNCHANGED tree
    BY DEF Unlink, RecordFailure, position
  <1> QED
    BY <1>1, <1>2, <1>3 DEF SuiteIInv, TreeInv, ProcessInv, NearInv, Playing, tree

(* Faults.                                                                  *)
LEMMA RaiseKeeps ==
    ASSUME SuiteIInv, Raise
    PROVE  SuiteIInv'
  <1>1. FilesInv'
    BY FilesStay DEF SuiteIInv, Raise, files, outcomes
  <1>2. n \in DOMAIN Suite
    BY DEF SuiteIInv, ProcessInv, Raise
  <1> QED
    BY <1>1, <1>2
       DEF SuiteIInv, TreeInv, ProcessInv, NearInv, Near, OnDisk, JobKey, Playing, Raise, tree, files,
           checkpoints, position

LEMMA PowerLossKeeps ==
    ASSUME SuiteIInv, PowerLoss
    PROVE  SuiteIInv'
  <1>1. JobKey \in QualityKeys
    BY JobOfSuite DEF SuiteIInv, PowerLoss, Down
  <1>2. TornFile \in FileOf(JobKey)
    BY DEF FileOf
  <1>3. /\ checkpoint' = [checkpoint EXCEPT ![JobKey] = TornFile] \/ checkpoint' = checkpoint
        /\ retained' = [retained EXCEPT ![JobKey] = TornFile] \/ retained' = retained
        /\ record' = [record EXCEPT ![JobKey] = TornFile] \/ record' = record
    BY DEF PowerLoss, checkpoints
  <1>4. FilesInv'
    BY <1>1, <1>2, <1>3, FilesReplaced DEF SuiteIInv
  <1> QED
    BY <1>4, DownKeeps DEF PowerLoss

LEMMA SuiteSteps == SuiteIInv /\ [SuiteNext]_suiteVars => SuiteIInv'
  <1> SUFFICES ASSUME SuiteIInv, [SuiteNext]_suiteVars PROVE SuiteIInv'
    OBVIOUS
  <1>1. CASE Freeze \/ Edit \/ Analyse \/ UNCHANGED suiteVars
    <2>1. UNCHANGED <<checkpoints, record, pc, n, closure, mode, game, pending>>
      BY <1>1 DEF Freeze, Edit, Analyse, suiteVars, tree, files, outcomes, process, position,
                  checkpoints
    <2>2. sources' \in Version /\ frozen' \in Version \cup {NoFile}
      BY <1>1 DEF Freeze, Edit, Analyse, suiteVars, tree, SuiteIInv, TreeInv
    <2> QED
      BY <2>1, <2>2, OutsideKeeps
  <1>2. CASE Finish \/ Kill
    <2>1. Down /\ UNCHANGED tree /\ UNCHANGED <<checkpoints, record>>
      BY <1>2 DEF Finish, Kill, files, outcomes
    <2> QED
      BY <2>1, FilesStay, DownKeeps DEF SuiteIInv
  <1>3. CASE Launch
    BY <1>3, LaunchKeeps
  <1>4. CASE Reuse
    BY <1>4, ReuseKeeps
  <1>5. CASE StartGame
    BY <1>5, StartGameKeeps
  <1>6. CASE ReplayGame
    BY <1>6, ReplayGameKeeps
  <1>7. CASE LockPiece
    BY <1>7, LockPieceKeeps
  <1>8. CASE EndGame
    BY <1>8, EndGameKeeps
  <1>9. CASE Keep
    BY <1>9, KeepKeeps
  <1>10. CASE Publish
    BY <1>10, PublishKeeps
  <1>11. CASE RecordGame
    BY <1>11, RecordGameKeeps
  <1>12. CASE Unlink \/ RecordFailure
    BY <1>12, NextJobKeeps
  <1>13. CASE Raise
    BY <1>13, RaiseKeeps
  <1>14. CASE PowerLoss
    BY <1>14, PowerLossKeeps
  <1> QED
    BY <1>1, <1>2, <1>3, <1>4, <1>5, <1>6, <1>7, <1>8, <1>9, <1>10, <1>11, <1>12, <1>13, <1>14
       DEF SuiteNext, Work

(* Every reachable state of the suite satisfies the inductive invariant.    *)
THEOREM SuiteInvariance == SuiteSpec => []SuiteIInv
  <1> QED
    BY SuiteStarts, SuiteSteps, PTL DEF SuiteSpec

(* For any games, sources, interval of checkpoints, cap and number of stops,*)
(* a record is that of the uninterrupted game under the sources it names.   *)
THEOREM GamesAreUninterrupted == SuiteSpec => []RecordsAreUninterrupted
  <1>1. SuiteIInv => RecordsAreUninterrupted
    <2> SUFFICES ASSUME SuiteIInv, NEW k \in Key, NEW v \in Version, Complete(QualityKey(k, v))
                 PROVE  record[QualityKey(k, v)].term = Uninterrupted(k, v)
      BY DEF RecordsAreUninterrupted
    <2>1. <<k, v>> \in QualityKeys /\ QualityKey(k, v) = <<k, v>>
      BY DEF QualityKeys, QualityKey
    <2>2. record[<<k, v>>] \in {NoFile, TornFile, Outcome(Uninterrupted(k, v))}
      BY <2>1 DEF SuiteIInv, FilesInv
    <2>3. record[<<k, v>>] = Outcome(Uninterrupted(k, v))
      BY <2>1, <2>2 DEF Complete, NoFile, TornFile
    <2> QED
      BY <2>1, <2>3 DEF Outcome
  <1> QED
    BY <1>1, SuiteInvariance, PTL

(* For any checkpoint interval, and unless a power loss tore one of its two *)
(* checkpoints, a stop at any instant at which a game is in memory costs at *)
(* most one interval, or the whole game if its last checkpoint is written   *)
(* and its record is not.                                                   *)
THEOREM WhatStopsCost == SuiteSpec => []StopCost
  <1>1. SuiteIInv => StopCost
    BY DEF SuiteIInv, ProcessInv, NearInv, Near, OnDisk, StopCost
  <1> QED
    BY <1>1, SuiteInvariance, PTL
(* The analysis, while it stands, is of the uninterrupted games of the      *)
(* sources it names, one for each job of the suite.                         *)
AnalysedGames ==
    analysis # NoFile =>
        /\ analysis.closure \in Version
        /\ \A i \in DOMAIN Suite :
               analysis.rows[QualityKey(Suite[i], analysis.closure)]
                   = Uninterrupted(Suite[i], analysis.closure)

LEMMA AnalyseReadsGames ==
    ASSUME SuiteIInv, Analyse
    PROVE  AnalysedGames'
  <1>1. frozen \in Version /\ analysis' = Analysis
    BY DEF Analyse, SuiteIInv, TreeInv
  <1>2. analysis'.closure = frozen /\ analysis'.rows = Rows
    BY <1>1 DEF Analysis
  <1>3. ASSUME NEW i \in DOMAIN Suite
        PROVE  Rows[QualityKey(Suite[i], frozen)] = Uninterrupted(Suite[i], frozen)
    <2>1. Suite[i] \in Key
      BY SuiteAssumption, ElementOfSeq, LenProperties
    <2>2. <<Suite[i], frozen>> \in QualityKeys /\ QualityKey(Suite[i], frozen) = <<Suite[i], frozen>>
      BY <1>1, <2>1 DEF QualityKeys, QualityKey
    <2>3. <<Suite[i], frozen>> \in Expected
      BY <2>2 DEF Expected
    <2>4. Complete(<<Suite[i], frozen>>)
      BY <2>3 DEF Analyse
    <2>5. record[<<Suite[i], frozen>>] = Outcome(Uninterrupted(Suite[i], frozen))
      BY <2>2, <2>4 DEF SuiteIInv, FilesInv, Complete, NoFile, TornFile
    <2> QED
      BY <2>2, <2>3, <2>5 DEF Rows, Outcome
  <1> QED
    BY <1>1, <1>2, <1>3 DEF AnalysedGames

LEMMA OthersKeepAnalysis ==
    ASSUME AnalysedGames, [SuiteNext]_suiteVars, ~Analyse
    PROVE  AnalysedGames'
  <1>1. analysis' = analysis
    BY DEF SuiteNext, Work, Freeze, Launch, Finish, Reuse, StartGame, ReplayGame, LockPiece,
           EndGame, Keep, Publish, RecordGame, Unlink, RecordFailure, Edit, Raise, Kill,
           PowerLoss, suiteVars, files
  <1> QED
    BY <1>1 DEF AnalysedGames

(* No analysis is ever made of a game that was not played to its end under  *)
(* the frozen sources: the safety half of SuiteIsAnalysed.                  *)
THEOREM AnalysisIsOfGames == SuiteSpec => []AnalysedGames
  <1>1. SuiteInit => AnalysedGames
    BY DEF SuiteInit, AnalysedGames
  <1>2. SuiteIInv /\ AnalysedGames /\ [SuiteNext]_suiteVars => AnalysedGames'
    BY AnalyseReadsGames, OthersKeepAnalysis
  <1> QED
    BY <1>1, <1>2, SuiteInvariance, PTL DEF SuiteSpec

-----------------------------------------------------------------------------
(* Releases.                                                                *)
Readable(j) == summary[j] \notin {Absent, Torn}

GateTypes ==
    /\ summary \in [Job -> Record \cup {Absent, Torn}]
    /\ log \in [UJob -> [1 .. Commands -> Nat]]
    /\ running \subseteq Job /\ opts \in [Job -> Option] /\ ended \in [Job -> Seq(Ending)]
    /\ tries \in [Job -> Nat]
NoRecordYet == \A j \in UJob \cap running : summary[j] = Absent
OwnLogs == \A j \in UJob \cap running : \A k \in 1 .. Len(ended[j]) : log[j][k] = tries[j]
Started == \A j \in running : tries[j] # 0 /\ Len(ended[j]) <= opts[j].commands
CleanWhenDone ==
    \A j \in running : Len(ended[j]) = Commands /\ ExitedZero(ended[j]) => <<j, tries[j]>> \in clean
CleanRecords ==
    \A j \in Job : Readable(j) =>
        /\ summary[j].by \in 1 .. tries[j]
        /\ summary[j].ended # <<>> /\ ExitedZero(summary[j].ended) => <<j, summary[j].by>> \in clean

GateInv ==
    /\ GateTypes /\ NoRecordYet /\ OwnLogs /\ Started
    /\ EvidenceIsLatest /\ CleanWhenDone /\ CleanRecords

OutsideInv ==
    /\ outside \in [Outside -> {"ok", "failed", Absent, Torn}]
    /\ \A f \in Outside : outside[f] = "ok" => f \in passed
    /\ docs \in [manifest : {"blocked", "executed", Torn}, ledger : {"blocked", "executed", Torn, Empty},
                 progress : {"blocked", "passed", Torn}, ci : {"blocked", "executed", Torn, Empty}]
    /\ marking \in {"off", "manifest", "ledger", "progress", "ci"}

-----------------------------------------------------------------------------
LEMMA GateInit == Init => GateInv
<1> SUFFICES ASSUME Init PROVE GateInv
    OBVIOUS
<1>1. GateTypes
    BY ReleaseAssumption DEF Init, GateTypes, NoLogs, NoOption, Option
<1>2. QED
    BY <1>1 DEF Init, GateInv, NoRecordYet, OwnLogs, Started, EvidenceIsLatest, CleanWhenDone,
                CleanRecords, Readable, Job

LEMMA StartKeeps ==
    ASSUME GateInv, NEW j \in Job, NEW o \in Option, Start(j, o)
    PROVE  GateInv'
<1> USE DEF GateInv, GateTypes, Start
<1>1. GateTypes'
    BY DEF Job
<1>2. NoRecordYet'
    BY DEF NoRecordYet, Job
<1>3. OwnLogs'
    BY DEF OwnLogs, Job
<1>4. Started'
  <2>1. o.commands \in Nat
    BY ReleaseAssumption DEF Option
  <2>2. QED
    BY <2>1 DEF Started
<1>5. EvidenceIsLatest'
    BY DEF EvidenceIsLatest, Job
<1>6. CleanWhenDone'
    BY ReleaseAssumption DEF CleanWhenDone
<1>7. CleanRecords'
    BY DEF CleanRecords, Readable
<1>8. QED
    BY <1>1, <1>2, <1>3, <1>4, <1>5, <1>6, <1>7

LEMMA RunKeeps ==
    ASSUME GateInv, NEW j \in Job, NEW r \in Ending, RunCommand(j, r)
    PROVE  GateInv'
<1> DEFINE nth == Len(ended[j]) + 1
<1> USE DEF GateInv, GateTypes
<1>1. /\ nth \in 1 .. Commands /\ ended'[j] = Append(ended[j], r) /\ Len(ended'[j]) = nth
      /\ \A i \in Job \ {j} : ended'[i] = ended[i]
      /\ ended' \in [Job -> Seq(Ending)]
  <2>1. ended[j] \in Seq(Ending) /\ opts[j].commands \in {0, Commands}
    BY DEF Option
  <2>2. nth \in Nat /\ nth >= 1 /\ nth = Len(ended[j]) + 1
    BY <2>1
  <2>3. nth <= Commands /\ Commands \in Nat
    BY <2>1, <2>2, ReleaseAssumption DEF RunCommand
  <2>4. Append(ended[j], r) \in Seq(Ending) /\ Len(Append(ended[j], r)) = nth
    BY <2>1
  <2>5. ended' = [ended EXCEPT ![j] = Append(@, r)]
    BY DEF RunCommand
  <2>6. QED
    BY <2>2, <2>3, <2>4, <2>5
<1>2. /\ log' = Overwritten(j, nth) /\ clean \subseteq clean'
      /\ j \in running /\ nth <= opts[j].commands
      /\ nth = Commands /\ ExitedZero(ended'[j]) => <<j, tries[j]>> \in clean'
      /\ UNCHANGED <<summary, running, opts, tries>>
    BY DEF RunCommand
<1>3. GateTypes'
    BY <1>1, <1>2 DEF Overwritten
<1>4. \A i \in UJob : i # j => log'[i] = log[i]
    BY <1>2 DEF Overwritten
<1>5. NoRecordYet'
    BY <1>2 DEF NoRecordYet
<1>6. OwnLogs'
  <2>1. SUFFICES ASSUME NEW i \in UJob \cap running, NEW k \in 1 .. Len(ended'[i])
                 PROVE  log'[i][k] = tries[i]
    BY <1>2 DEF OwnLogs
  <2>2. CASE i # j
    BY <2>2, <1>1, <1>4 DEF OwnLogs, Job
  <2>3. CASE i = j /\ k = nth
    BY <2>3, <1>1, <1>2 DEF Overwritten
  <2>4. CASE i = j /\ k # nth
    <3>1. k \in 1 .. Len(ended[j])
      BY <2>4, <1>1
    <3>2. log[j][k] = tries[j]
      BY <3>1, <1>2, <2>4 DEF OwnLogs
    <3>3. log'[j][k] = log[j][k]
      BY <2>4, <1>1, <1>2 DEF Overwritten
    <3>4. QED
      BY <2>4, <3>2, <3>3
  <2>5. QED
    BY <2>2, <2>3, <2>4
<1>7. Started'
    BY <1>1, <1>2 DEF Started
<1>8. EvidenceIsLatest'
  <2>1. SUFFICES ASSUME NEW i \in UJob, Readable(i)
                 PROVE  /\ summary[i].by = tries[i] /\ i \notin running
                        /\ \A k \in DOMAIN summary[i].ended : log'[i][k] = summary[i].by
    BY <1>2 DEF EvidenceIsLatest, Readable
  <2>2. i # j
    BY <2>1, <1>2 DEF NoRecordYet, Readable
  <2>3. QED
    BY <2>1, <2>2, <1>4 DEF EvidenceIsLatest, Readable
<1>9. CleanWhenDone'
    BY <1>1, <1>2 DEF CleanWhenDone
<1>10. CleanRecords'
    BY <1>2 DEF CleanRecords, Readable
<1>11. QED
    BY <1>3, <1>5, <1>6, <1>7, <1>8, <1>9, <1>10

LEMMA WriteKeeps ==
    ASSUME GateInv, NEW j \in Job, WriteSummary(j)
    PROVE  GateInv'
<1> USE DEF GateInv, GateTypes
<1>1. /\ j \in running /\ Len(ended[j]) = opts[j].commands
      /\ summary' = [summary EXCEPT ![j] = Finished(j)]
      /\ running' = running \ {j} /\ ended' = [ended EXCEPT ![j] = <<>>]
      /\ opts' = [opts EXCEPT ![j] = NoOption]
      /\ UNCHANGED <<log, tries, clean>>
    BY DEF WriteSummary
<1>2. Finished(j) \in Record
  <2>1. Status(j) \in {"passed", "blocked", "failed"}
    BY DEF Status
  <2>2. Checked(j) \in BOOLEAN
    BY DEF Checked
  <2>3. QED
    BY <2>1, <2>2 DEF Finished, Record
<1>3. NoOption \in Option
    BY DEF NoOption, Option
<1>4. GateTypes'
    BY <1>1, <1>2, <1>3
<1>5. NoRecordYet'
    BY <1>1 DEF NoRecordYet, Job
<1>6. OwnLogs'
    BY <1>1 DEF OwnLogs, Job
<1>7. Started'
    BY <1>1 DEF Started
<1>8. EvidenceIsLatest'
  <2>1. SUFFICES ASSUME NEW i \in UJob, Readable(i)'
                 PROVE  /\ summary'[i].by = tries[i] /\ i \notin running'
                        /\ \A k \in DOMAIN summary'[i].ended : log[i][k] = summary'[i].by
    BY <1>1 DEF EvidenceIsLatest, Readable
  <2>2. CASE i = j
    <3>1. summary'[i].by = tries[i] /\ summary'[i].ended = ended[i]
      BY <2>2, <1>1 DEF Finished
    <3>2. DOMAIN ended[i] = 1 .. Len(ended[i])
      BY <2>2
    <3>3. QED
      BY <2>2, <3>1, <3>2, <1>1 DEF OwnLogs
  <2>3. CASE i # j
    BY <2>1, <2>3, <1>1 DEF EvidenceIsLatest, Readable, Job
  <2>4. QED
    BY <2>2, <2>3
<1>9. CleanWhenDone'
    BY <1>1 DEF CleanWhenDone
<1>10. CleanRecords'
  <2>1. SUFFICES ASSUME NEW i \in Job, Readable(i)'
                 PROVE  /\ summary'[i].by \in 1 .. tries[i]
                        /\ summary'[i].ended # <<>> /\ ExitedZero(summary'[i].ended) =>
                             <<i, summary'[i].by>> \in clean
    BY <1>1 DEF CleanRecords, Readable
  <2>2. CASE i = j
    <3>1. summary'[i].by = tries[i] /\ summary'[i].ended = ended[i]
      BY <2>2, <1>1 DEF Finished
    <3>2. tries[i] \in 1 .. tries[i]
      BY <2>2, <1>1 DEF Started
    <3>3. ended[j] # <<>> => Len(ended[j]) = Commands
      <4>1. Len(ended[j]) = 0 => ended[j] = <<>>
        OBVIOUS
      <4>2. QED
        BY <4>1, <1>1 DEF Option
    <3>4. QED
      BY <2>2, <3>1, <3>2, <3>3, <1>1 DEF CleanWhenDone
  <2>3. CASE i # j
    BY <2>1, <2>3, <1>1 DEF CleanRecords, Readable
  <2>4. QED
    BY <2>2, <2>3
<1>11. QED
    BY <1>4, <1>5, <1>6, <1>7, <1>8, <1>9, <1>10

LEMMA KillKeeps ==
    ASSUME GateInv, NEW j \in Job, KillGate(j)
    PROVE  GateInv'
<1> USE DEF GateInv, GateTypes
<1> DEFINE nth == Len(ended[j]) + 1
<1>1. /\ j \in running
      /\ running' = running \ {j} /\ ended' = [ended EXCEPT ![j] = <<>>]
      /\ opts' = [opts EXCEPT ![j] = NoOption]
      /\ UNCHANGED <<tries, clean>>
    BY DEF KillGate
<1>2. \/ log' \in {log, Overwritten(j, nth)} /\ nth <= opts[j].commands /\ summary' = summary
      \/ summary' \in {summary, [summary EXCEPT ![j] = Torn]} /\ log' = log
    BY DEF KillGate
<1>3. NoOption \in Option
    BY DEF NoOption, Option
<1>4. log' \in [UJob -> [1 .. Commands -> Nat]] /\ \A i \in UJob \ {j} : log'[i] = log[i]
  <2>1. CASE log' = log
    BY <2>1
  <2>2. CASE log' = Overwritten(j, nth)
    <3>1. tries[j] \in Nat
      OBVIOUS
    <3>2. QED
      BY <2>2, <3>1 DEF Overwritten
  <2>3. QED
    BY <1>2, <2>1, <2>2
<1>5. summary' \in [Job -> Record \cup {Absent, Torn}] /\ \A i \in Job \ {j} : summary'[i] = summary[i]
    BY <1>2
<1>6. GateTypes'
  <2>1. <<>> \in Seq(Ending)
    OBVIOUS
  <2>2. QED
    BY <2>1, <1>1, <1>3, <1>4, <1>5
<1>7. NoRecordYet'
    BY <1>1, <1>5 DEF NoRecordYet, Job
<1>8. OwnLogs'
    BY <1>1, <1>4 DEF OwnLogs, Job
<1>9. Started'
    BY <1>1 DEF Started
<1>10. j \in UJob => ~Readable(j)'
    BY <1>1, <1>2 DEF NoRecordYet, Readable
<1>11. EvidenceIsLatest'
  <2>1. SUFFICES ASSUME NEW i \in UJob, Readable(i)'
                 PROVE  /\ summary'[i].by = tries[i] /\ i \notin running'
                        /\ \A k \in DOMAIN summary'[i].ended : log'[i][k] = summary'[i].by
    BY <1>1 DEF EvidenceIsLatest, Readable
  <2>2. i # j
    BY <2>1, <1>10
  <2>3. QED
    BY <2>1, <2>2, <1>1, <1>4, <1>5 DEF EvidenceIsLatest, Readable, Job
<1>12. CleanWhenDone'
    BY <1>1 DEF CleanWhenDone
<1>13. CleanRecords'
    BY <1>1, <1>2 DEF CleanRecords, Readable
<1>14. QED
    BY <1>6, <1>7, <1>8, <1>9, <1>11, <1>12, <1>13

LEMMA IdleKeeps ==
    ASSUME GateInv, UNCHANGED gates
    PROVE  GateInv'
BY DEF GateInv, GateTypes, NoRecordYet, OwnLogs, Started, EvidenceIsLatest, CleanWhenDone,
       CleanRecords, Readable, gates

LEMMA GateNext == GateInv /\ [Next]_vars => GateInv'
<1> SUFFICES ASSUME GateInv, [Next]_vars PROVE GateInv'
    OBVIOUS
<1>1. ASSUME NEW j \in Job, Rerun(j) PROVE GateInv'
  <2>1. Asked(j) \in Option
    BY ReleaseAssumption DEF Asked, Option
  <2>2. QED
    BY <1>1, <2>1, StartKeeps DEF Rerun
<1>2. ASSUME NEW j \in Job, NEW o \in Option, Extra(j, o) PROVE GateInv'
    BY <1>2, StartKeeps DEF Extra
<1>3. ASSUME NEW j \in Job, Gate(j) PROVE GateInv'
    BY <1>3, RunKeeps, WriteKeeps DEF Gate
<1>4. ASSUME NEW j \in Job, KillGate(j) PROVE GateInv'
    BY <1>4, KillKeeps
<1>5. ASSUME NEW f \in Outside, CheckPasses(f) \/ CheckFails(f) \/ CheckTorn(f) PROVE GateInv'
    BY <1>5, IdleKeeps DEF CheckPasses, CheckFails, CheckTorn
<1>6. CASE Mark \/ MarkFile \/ KillMark \/ Restore
    BY <1>6, IdleKeeps DEF Mark, MarkFile, KillMark, Restore
<1>7. CASE Commit \/ Tag
    BY <1>7, IdleKeeps DEF Commit, Tag
<1>8. CASE UNCHANGED vars
    BY <1>8, IdleKeeps DEF vars
<1>9. QED
    BY <1>1, <1>2, <1>3, <1>4, <1>5, <1>6, <1>7, <1>8 DEF Next, Step

(* The evidence on disk is never older than the last attempt, for any jobs  *)
(* and any number of commands, kills and repetitions (ugate.py, the comment *)
(* at line 130).                                                            *)
THEOREM EvidenceLatest == Spec => []EvidenceIsLatest
<1>1. GateInv => EvidenceIsLatest
    BY DEF GateInv
<1>2. QED
    BY <1>1, GateInit, GateNext, PTL DEF Spec

-----------------------------------------------------------------------------
LEMMA OutsideInit == Init => OutsideInv
<1> SUFFICES ASSUME Init PROVE OutsideInv
    OBVIOUS
<1>1. Absent # "ok"
    BY ReleaseAssumption
<1>2. \A f \in Outside : outside[f] = Absent
    BY DEF Init
<1>3. \A f \in Outside : outside[f] = "ok" => f \in passed
    BY <1>1, <1>2
<1>4. outside \in [Outside -> {"ok", "failed", Absent, Torn}]
    BY DEF Init
<1>5. Unmarked \in [manifest : {"blocked", "executed", Torn}, ledger : {"blocked", "executed", Torn, Empty},
                    progress : {"blocked", "passed", Torn}, ci : {"blocked", "executed", Torn, Empty}]
    BY DEF Unmarked
<1>6. QED
    BY <1>3, <1>4, <1>5 DEF Init, OutsideInv

LEMMA OutsideNext == OutsideInv /\ [Next]_vars => OutsideInv'
<1> SUFFICES ASSUME OutsideInv, [Next]_vars PROVE OutsideInv'
    OBVIOUS
<1> USE DEF OutsideInv
<1>1. ASSUME NEW f \in Outside, CheckPasses(f) PROVE OutsideInv'
    BY <1>1 DEF CheckPasses
<1>2. ASSUME NEW f \in Outside, CheckFails(f) PROVE OutsideInv'
    BY <1>2 DEF CheckFails
<1>3. ASSUME NEW f \in Outside, CheckTorn(f) PROVE OutsideInv'
    BY <1>3, ReleaseAssumption DEF CheckTorn
<1>4. CASE Mark
    BY <1>4 DEF Mark, elsewhere
<1>5. CASE MarkFile
    BY <1>5 DEF MarkFile, Rewritten, Marked, elsewhere
<1>6. CASE KillMark
    BY <1>6 DEF KillMark, elsewhere
<1>7. CASE Restore
    BY <1>7 DEF Restore, Unmarked, elsewhere
<1>8. ASSUME UNCHANGED <<elsewhere, docs, marking>> PROVE OutsideInv'
    BY <1>8 DEF elsewhere
<1>9. ASSUME NEW j \in Job, Rerun(j) \/ Gate(j) \/ KillGate(j) PROVE UNCHANGED <<elsewhere, docs, marking>>
    BY <1>9 DEF Rerun, Gate, RunCommand, WriteSummary, KillGate
<1>10. ASSUME NEW j \in Job, NEW o \in Option, Extra(j, o) PROVE UNCHANGED <<elsewhere, docs, marking>>
    BY <1>10 DEF Extra
<1>11. CASE Commit \/ Tag \/ UNCHANGED vars
    BY <1>11, <1>8 DEF Commit, Tag, vars
<1>12. QED
    BY <1>1, <1>2, <1>3, <1>4, <1>5, <1>6, <1>7, <1>8, <1>9, <1>10, <1>11 DEF Next, Step

(* A releasable commit has earned it, for any jobs, checks, commands, kills *)
(* and repetitions: the last attempt at every other job of this version    *)
(* than the one whose gate runs the validator exited 0,                     *)
(* one at every job of the first did, and every check elsewhere passed the  *)
(* last time (check_release_v2.py check_evidence, check_platforms).         *)
THEOREM OkEarned == Spec => OkIsEarned
<1>1. ASSUME GateInv, OutsideInv, Next, releasable', ~releasable PROVE Earned
  <2>1. Commit
    BY <1>1 DEF Next, Step, Rerun, Extra, Gate, RunCommand, WriteSummary, KillGate, CheckPasses,
                CheckFails, CheckTorn, Mark, MarkFile, KillMark, Restore, Tag, repository
  <2>2. Verdict(Checkout) = "OK"
    BY <1>1, <2>1 DEF Commit
  <2>3. ~Problems(Checkout) /\ Checkout.manifest # "blocked"
    BY <2>2 DEF Verdict
  <2>4. /\ Checkout.summary = summary /\ Checkout.outside = outside
        /\ Checkout.manifest = docs.manifest
    BY DEF Checkout, Tree
  <2>5. docs.manifest = "executed"
    BY <1>1, <2>3, <2>4 DEF Problems, OutsideInv
  <2>6. ASSUME NEW j \in UJob \ {Self} PROVE <<j, tries[j]>> \in clean
    <3>1. EvidenceOk(Checkout, j)
      BY <2>3 DEF Problems
    <3>2. Readable(j) /\ summary[j].ended # <<>> /\ ExitedZero(summary[j].ended)
      BY <3>1, <2>4, <2>6 DEF EvidenceOk, Readable
    <3>3. QED
      BY <1>1, <3>2 DEF GateInv, EvidenceIsLatest, CleanRecords, Readable, Job
  <2>7. ASSUME NEW j \in EJob PROVE \E try \in 1 .. tries[j] : <<j, try>> \in clean
    <3>1. Readable(j) /\ summary[j].ended # <<>> /\ ExitedZero(summary[j].ended)
      BY <2>3, <2>4 DEF Problems, EvidenceOfV1Ok, Readable
    <3>2. QED
      BY <1>1, <3>1 DEF GateInv, CleanRecords, Job
  <2>8. ASSUME NEW f \in Outside PROVE f \in passed
    BY <1>1, <2>3, <2>4, <2>5 DEF Problems, PlatformOk, OutsideInv
  <2>9. QED
    BY <2>6, <2>7, <2>8 DEF Earned
<1>2. ASSUME GateInv, GateInv', OutsideInv, OutsideInv', [Next]_vars
      PROVE  [releasable' /\ ~releasable => Earned]_vars
    BY <1>1, <1>2
<1>3. QED
    BY <1>2, GateInit, GateNext, OutsideInit, OutsideNext, PTL DEF Spec, OkIsEarned
=============================================================================
