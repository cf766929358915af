---------------------------- MODULE JobImagesProofs ----------------------------
(***************************************************************************)
(* The registry implements its abstract store, the image caches believe    *)
(* nothing that is older than its lifetime, and the latest version on      *)
(* record is the image behind the tag, for every number of processes,      *)
(* threads, names, definitions, failures and requests.                     *)
(*                                                                         *)
(* A save replaces the file with its temporary file, so the first part of  *)
(* the invariant says that what was written there is still the map in      *)
(* memory.  An entry of a cache comes from an answer of the daemon and     *)
(* that from a question, so that Honest follows a belief through all       *)
(* three.  A version is recorded after its build has moved the tag, so     *)
(* that Recorded tells the two apart.                                      *)
(***************************************************************************)
EXTENDS JobImages, Integers, TLAPS

Typed ==
  /\ file \in Files
  /\ mem \in [Procs -> Maps]
  /\ pc \in [Procs -> Pc]
  /\ temp \in [Procs -> Maps \union {NoFile}]

\* The temporary file that is about to be renamed holds the map in memory.
Faithful == \A p \in Procs : pc[p] = "written" => temp[p] = mem[p]

IInv == Typed /\ Faithful

\* What the store and the invariant depend on.
seen == <<file, mem, pc, temp>>

\* No job type is a map of job types ...
LEMMA EmptyIsMap == Empty \in Maps
BY DEF Empty, Maps

\* ... and every map is a possible content of the registry file.
LEMMA MapIsFile == Maps \subseteq Files
BY DEF Maps, Files

\* _load yields a map: entries that do not validate are skipped.
LEMMA LoadedIsMap == ASSUME file \in Files PROVE Loaded \in Maps
<1> DEFINE source == IF file = NoFile THEN Legacy ELSE file
<1>1. source \in Files
  BY RegistryConstants
<1>2. CASE source = NoFile
  BY <1>2, EmptyIsMap DEF Loaded
<1>3. CASE source # NoFile
  <2>1. source \in [Names -> Defs \union {NoDef, Invalid}]
    BY <1>1, <1>3 DEF Files
  <2>2. \A n \in Names : FromDict(source[n]) \in Defs \union {NoDef}
    BY <2>1 DEF FromDict
  <2>3. Loaded = [n \in Names |-> FromDict(source[n])]
    BY <1>3 DEF Loaded
  <2> QED BY <2>2, <2>3 DEF Maps
<1> QED BY <1>2, <1>3

\* Merging the configuration into the registry gives a map.
LEMMA MergeIsMap ==
  ASSUME NEW m \in Maps, NEW new \in Maps PROVE RegisterMany(m, new) \in Maps
BY DEF RegisterMany, Maps

\* Before any process opens the registry there is no temporary file.
LEMMA InitInv == Init => IInv
<1> SUFFICES ASSUME Init PROVE IInv
  OBVIOUS
<1> USE DEF Init, RegInit
<1>1. Typed
  BY EmptyIsMap DEF Typed, Pc
<1>2. Faithful
  BY DEF Faithful
<1> QED BY <1>1, <1>2 DEF IInv

\* A step that leaves the registry alone.
LEMMA Elsewhere == IInv /\ UNCHANGED seen => IInv' /\ UNCHANGED <<mem, file>>
BY DEF IInv, Typed, Faithful, seen

\* Opening the registry and each change of the map in memory.
LEMMA ChangeStep ==
  ASSUME IInv, NEW p \in Procs, NEW m \in Maps,
         mem' = [mem EXCEPT ![p] = m], file' = file,
         NEW q \in Pc \ {"written"}, pc' = [pc EXCEPT ![p] = q],
         temp' = temp \/ temp' = [temp EXCEPT ![p] = NoFile]
  PROVE  IInv' /\ Store!Change(p)
<1>1. Typed'
  BY DEF IInv, Typed
<1>2. Faithful'
  BY DEF IInv, Typed, Faithful
<1>3. Store!Change(p)
  BY DEF Store!Change
<1> QED BY <1>1, <1>2, <1>3 DEF IInv

\* Opening reads the whole file and drops its invalid entries.
LEMMA OpenStep == ASSUME IInv, NEW p \in Procs, Open(p) PROVE IInv' /\ Store!Change(p)
<1> DEFINE m == IF p = Server THEN RegisterMany(Loaded, Config) ELSE Loaded
<1>1. m \in Maps
  BY LoadedIsMap, MergeIsMap, RegistryConstants DEF IInv, Typed
<1>2. /\ mem' = [mem EXCEPT ![p] = m]
      /\ pc' = [pc EXCEPT ![p] = "ready"]
      /\ file' = file /\ temp' = temp
  BY DEF Open, Goes
<1> HIDE DEF m
<1> QED BY <1>1, <1>2, ChangeStep DEF Pc

\* Registering and removing change one process's map, before its save begins.
LEMMA RegisterStep ==
  ASSUME IInv, NEW p \in Procs, NEW n \in Names, NEW d \in Defs \union {NoDef},
         NEW q \in {"ready", "save"}, pc' = [pc EXCEPT ![p] = q],
         mem' = [mem EXCEPT ![p][n] = d], UNCHANGED <<file, temp>>
  PROVE  IInv' /\ Store!Change(p)
<1>1. mem[p] \in Maps
  BY DEF IInv, Typed
<1> DEFINE m == [mem[p] EXCEPT ![n] = d]
<1>2. m \in Maps
  BY <1>1 DEF Maps
<1>3. mem' = [mem EXCEPT ![p] = m]
  OBVIOUS
<1> HIDE DEF m
<1> QED BY <1>2, <1>3, ChangeStep DEF Pc

\* A process inside _save() changes neither its map nor, before the rename, the file.
LEMMA SaveStep ==
  ASSUME IInv, NEW p \in Procs,
         SaveLock(p) \/ SaveWrite(p) \/ SaveFails(p)
  PROVE  IInv' /\ UNCHANGED <<mem, file>>
<1> USE DEF IInv, Typed, Faithful, Pc
<1>1. CASE SaveLock(p)
  BY <1>1 DEF SaveLock, Goes
<1>2. CASE SaveWrite(p)
  BY <1>2 DEF SaveWrite, Goes
<1>3. CASE SaveFails(p)
  BY <1>3 DEF SaveFails
<1> QED BY <1>1, <1>2, <1>3

\* os.replace installs the map that the process has in memory.
LEMMA ReplaceStep ==
  ASSUME IInv, NEW p \in Procs, SaveReplace(p) PROVE IInv' /\ Store!Put(p)
<1> USE DEF IInv, Typed, Faithful, Pc
<1>1. file' = mem[p] /\ mem' = mem
  BY DEF SaveReplace, Goes
<1>2. IInv'
  BY <1>1, MapIsFile DEF SaveReplace, Goes
<1> QED BY <1>1, <1>2 DEF Store!Put

\* A process that ends forgets its map.
LEMMA EndStep == ASSUME IInv, NEW p \in Procs, End(p) PROVE IInv' /\ Store!Change(p)
<1>1. /\ mem' = [mem EXCEPT ![p] = Empty]
      /\ pc' = [pc EXCEPT ![p] = "off"]
      /\ temp' = [temp EXCEPT ![p] = NoFile]
      /\ file' = file
  BY DEF End
<1> QED BY <1>1, EmptyIsMap, ChangeStep DEF Pc

\* Every step of the registry keeps the invariant and is one of the store.
LEMMA RegistryStep ==
  ASSUME IInv, NEW p \in Procs, RegNext(p) PROVE IInv' /\ [Store!Next]_<<mem, file>>
<1>1. CASE Open(p)
  BY <1>1, OpenStep DEF Store!Next
<1>2. ASSUME NEW n \in Names, InitDefault(p, n) PROVE IInv' /\ Store!Change(p)
  <2>1. Defaults[n] \in Defs
    BY <1>2, RegistryConstants DEF InitDefault, Maps
  <2> QED BY <1>2, <2>1, RegisterStep DEF InitDefault, Register, Goes
<1>3. ASSUME NEW n \in Names, RemoveType(p, n) PROVE IInv' /\ Store!Change(p)
  BY <1>3, RegisterStep DEF RemoveType, Goes
<1>4. ASSUME NEW n \in Names, NEW d \in Defs, NEW b \in BOOLEAN, Register(p, n, d, b)
      PROVE  IInv' /\ Store!Change(p)
  BY <1>4, RegisterStep DEF Register, Goes
<1>5. CASE SaveLock(p) \/ SaveWrite(p) \/ SaveFails(p)
  BY <1>5, SaveStep
<1>6. CASE SaveReplace(p)
  BY <1>6, ReplaceStep DEF Store!Next
<1> QED BY <1>1, <1>2, <1>3, <1>4, <1>5, <1>6 DEF RegNext, Store!Next

\* So is every step of the whole; builder, caches and executor leave the store alone.
LEMMA NextStep ==
  ASSUME IInv, [Next]_vars PROVE IInv' /\ [Store!Next]_<<mem, file>>
<1>1. ASSUME NEW p \in Procs, Registering(p) PROVE IInv' /\ [Store!Next]_<<mem, file>>
  BY <1>1, RegistryStep DEF Registering
<1>2. ASSUME NEW p \in Procs, Building(p) PROVE IInv' /\ [Store!Next]_<<mem, file>>
  <2>1. CASE ProcessEnds(p)
    BY <2>1, EndStep DEF ProcessEnds, Store!Next
  <2>2. CASE ~ProcessEnds(p)
    <3>1. UNCHANGED seen
      BY <1>2, <2>2 DEF Building, BuildStart, DockerBuilds, BuildFails, ResetImageCaches,
                        BuildVerify, RegisterVersion, RemoveImage, regVars, seen
    <3> QED BY <3>1, Elsewhere
  <2> QED BY <2>1, <2>2
<1>3. ASSUME NEW t \in Threads, Running(t) PROVE UNCHANGED seen
  BY <1>3 DEF Running, StartJob, CheckCache, DaemonAnswers, StoreAnswer, Fallback,
              RunImage, regVars, seen
<1>4. CASE Tick \/ UNCHANGED vars
  BY <1>4, Elsewhere DEF Tick, vars, regVars, seen
<1> QED BY <1>1, <1>2, <1>3, <1>4, Elsewhere DEF Next

\* However many processes register, save, fail, build and end, the registry file is
\* only ever replaced as a whole by the map one process has in memory
\* (JobTypeRegistry._save).
THEOREM StoreImplemented == Spec => StoreSpec
<1>1. Init => Store!Init
  BY EmptyIsMap DEF Init, RegInit, Store!Init
<1>2. IInv /\ [Next]_vars => IInv' /\ [Store!Next]_<<mem, file>>
  BY NextStep
<1> QED BY <1>1, <1>2, InitInv, PTL DEF Spec, StoreSpec, Store!Spec

\* What is believed of a tag, from the moment the daemon was asked.
Believable(k, n, t0) == t0 <= now /\ (Holds(image[n], k) \/ gone[k][n] >= t0)

\* Cached answers and those on their way to the cache are no older than they say.
Honest ==
  /\ \A k \in Kinds, n \in Names :
       expiry[k][n] > now => Believable(k, n, expiry[k][n] - TTL)
  /\ \A t \in Threads : probe[t].at = "asked" => probe[t].t0 <= now
  /\ \A t \in Threads : probe[t].at = "answered" /\ probe[t].yes
       => Believable(probe[t].k, probe[t].n, probe[t].t0)

\* The server's build of n has moved the tag and its version is not recorded yet.
Moved(n) ==
  build[Server].at \in {"reset", "verify", "version"} /\ build[Server].n = n

\* A tag that the server was the last to move holds what its build is about to
\* record, or else what it recorded last.  Only the server records.
Answers(n) ==
  IF Moved(n) THEN build[Server].d = image[n]
              ELSE versions[n] # <<>> /\ Head(versions[n]).d = image[n]

Recorded ==
  /\ \A p \in Procs : build[p].at = "version" => p = Server
  /\ \A n \in Names : mover[n] = Server => Answers(n)
-----------------------------------------------------------------------------
(* Types.                                                                  *)

\* The registry's part: nothing but the end of its save takes the lock from a process.
LEMMA RegistryTypes == ASSUME IInv, RegTypeOK, NEW p \in Procs, RegNext(p) PROVE RegTypeOK'
<1> USE RegistryConstants DEF RegTypeOK, Pc, Procs
<1>1. CASE Open(p)
  <2>1. Loaded \in Maps /\ (p = Server => RegisterMany(Loaded, Config) \in Maps)
    BY LoadedIsMap, MergeIsMap
  <2> QED BY <1>1, <2>1 DEF Open, Goes
<1>2. ASSUME NEW n \in Names, NEW d \in Defs \union {NoDef}, NEW q \in {"ready", "save"},
             Asked, Goes(p, "ready", q), mem' = [mem EXCEPT ![p][n] = d],
             UNCHANGED <<file, temp, lock, faults>>
      PROVE  RegTypeOK'
  <2>1. mem' \in [Procs -> Maps]
    BY <1>2 DEF Maps
  <2> QED BY <1>2, <2>1 DEF Asked, Goes
<1>3. ASSUME NEW n \in Names, InitDefault(p, n) PROVE RegTypeOK'
  <2>1. Defaults[n] \in Defs
    BY <1>3 DEF InitDefault, Maps
  <2> QED BY <1>2, <1>3, <2>1 DEF InitDefault, Register
<1>4. ASSUME NEW n \in Names, RemoveType(p, n) PROVE RegTypeOK'
  BY <1>2, <1>4 DEF RemoveType
<1>5. ASSUME NEW n \in Names, NEW d \in Defs, NEW b \in BOOLEAN, Register(p, n, d, b)
      PROVE  RegTypeOK'
  BY <1>2, <1>5 DEF Register
<1>6. CASE p \in Writers /\ SaveLock(p)
  BY <1>6 DEF SaveLock, Goes
<1>7. CASE SaveWrite(p)
  BY <1>7 DEF SaveWrite, Goes
<1>8. CASE SaveReplace(p)
  <2>1. file' \in Files
    BY <1>8, ReplaceStep DEF IInv, Typed
  <2> QED BY <1>8, <2>1 DEF SaveReplace, Goes
<1>9. CASE SaveFails(p)
  BY <1>9 DEF SaveFails, Unlocked
<1> QED BY <1>1, <1>3, <1>4, <1>5, <1>6, <1>7, <1>8, <1>9 DEF RegNext

\* A concatenation has the elements of both parts in order.
LEMMA Concatenation ==
  ASSUME NEW S, NEW a \in Seq(S), NEW b \in Seq(S)
  PROVE  /\ a \o b \in Seq(S) /\ Len(a \o b) = Len(a) + Len(b)
         /\ \A k \in 1..Len(a) : (a \o b)[k] = a[k]
         /\ \A k \in 1..Len(b) : (a \o b)[Len(a) + k] = b[k]
<1>1. a \o b \in Seq(S) /\ Len(a \o b) = Len(a) + Len(b)
  OBVIOUS
<1>2. ASSUME NEW k \in 1..Len(a) PROVE (a \o b)[k] = a[k]
  OBVIOUS
<1>3. ASSUME NEW k \in 1..Len(b) PROVE (a \o b)[Len(a) + k] = b[k]
  <2>1. Len(a) \in Nat /\ Len(b) \in Nat /\ Len(a) + k \in 1..(Len(a) + Len(b))
        /\ ~(Len(a) + k <= Len(a)) /\ (Len(a) + k) - Len(a) = k
    OBVIOUS
  <2> QED BY <2>1
<1> QED BY <1>1, <1>2, <1>3

\* save_version keeps a row per digest and puts the new one first.
LEMMA SavedRows ==
  ASSUME NEW rows \in Seq(Versions), NEW d \in Defs, NEW tag \in Tags \union {None},
         \A i, j \in DOMAIN rows : rows[i].d = rows[j].d => i = j
  PROVE  LET new == SaveVersion(rows, d, tag)
         IN  /\ new \in Seq(Versions) /\ new # <<>> /\ Head(new).d = d
             /\ \A i, j \in DOMAIN new : new[i].d = new[j].d => i = j
<1> DEFINE others == OtherRows(rows, d)
           v == [d |-> d, tag |-> tag]
           new == <<v>> \o others
<1>0. \A i, j \in 1..Len(rows) : rows[i].d = rows[j].d => i = j
  OBVIOUS
<1>1. /\ others \in Seq(Versions)
      /\ \A i \in 1..Len(others) : others[i].d # d
      /\ \A i, j \in 1..Len(others) : others[i].d = others[j].d => i = j
  <2> DEFINE same == {i \in DOMAIN rows : rows[i].d = d}
             i == CHOOSE k \in same : TRUE
  <2>1. CASE same = {}
    BY <2>1 DEF OtherRows
  <2>2. CASE same # {}
    <3>1. i \in 1..Len(rows) /\ rows[i].d = d
      BY <2>2
    <3> HIDE DEF i
    <3> DEFINE a == SubSeq(rows, 1, i - 1)
               b == SubSeq(rows, i + 1, Len(rows))
    <3>2. others = a \o b
      BY <2>2 DEF OtherRows, i
    <3>3. /\ a \in Seq(Versions) /\ Len(a) = i - 1
          /\ \A k \in 1..(i - 1) : a[k] = rows[k]
      BY <3>1
    <3>4. /\ b \in Seq(Versions) /\ Len(b) = Len(rows) - i
          /\ \A k \in 1..(Len(rows) - i) : b[k] = rows[i + k]
      BY <3>1
    <3> HIDE DEF a, b, others
    <3>5. /\ others \in Seq(Versions) /\ Len(others) = Len(a) + Len(b)
          /\ \A k \in 1..Len(a) : others[k] = a[k]
          /\ \A k \in 1..Len(b) : others[Len(a) + k] = b[k]
      <4>1. /\ a \o b \in Seq(Versions) /\ Len(a \o b) = Len(a) + Len(b)
            /\ \A k \in 1..Len(a) : (a \o b)[k] = a[k]
            /\ \A k \in 1..Len(b) : (a \o b)[Len(a) + k] = b[k]
        <5>1. a \in Seq(Versions) /\ b \in Seq(Versions)
          BY <3>3, <3>4
        <5> QED BY <5>1, Concatenation
      <4> QED BY <3>2, <4>1, Zenon
    <3>6. ASSUME NEW k \in 1..Len(others)
          PROVE  \E m \in 1..Len(rows) :
                   m # i /\ others[k] = rows[m] /\ m = (IF k < i THEN k ELSE k + 1)
      <4>1. CASE k < i
        BY <3>1, <3>3, <3>4, <3>5, <4>1
      <4>2. CASE k >= i
        <5>1. k - Len(a) \in 1..Len(b) /\ k = Len(a) + (k - Len(a))
          BY <3>1, <3>3, <3>4, <3>5, <4>2
        <5>2. others[k] = b[k - Len(a)]
          BY <3>5, <5>1
        <5>3. b[k - Len(a)] = rows[k + 1] /\ k + 1 \in 1..Len(rows)
          BY <3>1, <3>3, <3>4, <5>1
        <5> QED BY <3>1, <4>2, <5>2, <5>3
      <4> QED BY <3>1, <4>1, <4>2
    <3>7. \A k \in 1..Len(others) : others[k].d # d
      BY <3>1, <3>6
    <3>8. ASSUME NEW k \in 1..Len(others), NEW l \in 1..Len(others), others[k].d = others[l].d
          PROVE  k = l
      <4>1. PICK m \in 1..Len(rows) : m # i /\ others[k] = rows[m] /\ m = (IF k < i THEN k ELSE k + 1)
        BY <3>6
      <4>2. PICK o \in 1..Len(rows) : o # i /\ others[l] = rows[o] /\ o = (IF l < i THEN l ELSE l + 1)
        BY <3>6
      <4>3. m = o
        BY <3>8, <4>1, <4>2, <1>0
      <4> QED BY <3>1, <4>1, <4>2, <4>3
    <3> QED BY <3>5, <3>7, <3>8
  <2> QED BY <2>1, <2>2
<1>2. v \in Versions /\ v.d = d
  BY DEF Versions
<1> HIDE DEF others, v
<1>3. /\ new \in Seq(Versions) /\ Len(new) = Len(others) + 1 /\ new[1] = v
      /\ \A i \in 2..Len(new) : new[i] = others[i - 1] /\ i - 1 \in 1..Len(others)
  BY <1>1, <1>2
<1>4. new # <<>> /\ Head(new) = v
  BY <1>3
<1> HIDE DEF new
<1>5. \A i, j \in 1..Len(new) : new[i].d = new[j].d => i = j
  <2>1. ASSUME NEW i \in 1..Len(new), NEW j \in 1..Len(new), new[i].d = new[j].d PROVE i = j
    <3>1. \A k \in 2..Len(new) : new[k].d # new[1].d
      BY <1>1, <1>2, <1>3
    <3>2. CASE i \in 2..Len(new) /\ j \in 2..Len(new)
      <4>1. /\ i - 1 \in 1..Len(others) /\ j - 1 \in 1..Len(others)
            /\ others[i - 1].d = others[j - 1].d
        BY <1>3, <2>1, <3>2
      <4>2. i - 1 = j - 1
        BY <1>1, <4>1
      <4> QED BY <4>2, <3>2
    <3>3. Len(new) \in Nat /\ (i = 1 \/ i \in 2..Len(new)) /\ (j = 1 \/ j \in 2..Len(new))
      BY <1>3
    <3> QED BY <2>1, <3>1, <3>2, <3>3
  <2> QED BY <2>1
<1> QED BY <1>2, <1>3, <1>4, <1>5 DEF SaveVersion, new, others, v

\* The end of a process takes its lock with it.
LEMMA EndTypes == ASSUME RegTypeOK, NEW p \in Procs, End(p) PROVE RegTypeOK'
<1>1. file' \in Files /\ faults' \in 0..MaxFaults /\ ops' \in 0..MaxOps
  BY RegistryConstants DEF RegTypeOK, End, Asked
<1>2. mem' \in [Procs -> Maps]
  BY EmptyIsMap DEF RegTypeOK, End
<1>3. /\ pc' \in [Procs -> Pc] /\ temp' \in [Procs -> Maps \union {NoFile}]
  BY DEF RegTypeOK, End, Pc
<1>4. lock' \in Writers \union {None} /\ (lock' # None => pc'[lock'] \in {"locked", "written"})
  <2>1. CASE lock = p
    BY <2>1 DEF RegTypeOK, End, Unlocked
  <2>2. CASE lock # p
    BY <2>2 DEF RegTypeOK, End, Unlocked, Procs
  <2> QED BY <2>1, <2>2
<1> QED BY <1>1, <1>2, <1>3, <1>4 DEF RegTypeOK

\* A request changes nothing of the registry but their number.
LEMMA AskedTypes ==
  ASSUME RegTypeOK, Asked, UNCHANGED <<file, mem, pc, temp, lock, faults>> PROVE RegTypeOK'
BY RegistryConstants DEF RegTypeOK, Asked

\* The registry's types depend on its own variables only.
LEMMA SameTypes == ASSUME RegTypeOK, UNCHANGED regVars PROVE RegTypeOK'
BY DEF RegTypeOK, regVars

\* A build that is not idle has all its fields.
LEMMA BuildIs ==
  ASSUME build \in [Procs -> Builds \union {NoBuild}], NEW p \in Procs, build[p].at # "idle"
  PROVE  /\ build[p] \in Builds /\ build[p] # NoBuild
         /\ build[p].n \in Names /\ build[p].d \in Defs /\ build[p].tag \in Tags \union {None}
         /\ \A at \in {"docker", "reset", "verify", "version"} :
              [build[p] EXCEPT !.at = at] \in Builds
BY DEF Builds, NoBuild

\* Moving or removing a tag keeps the types of images and of their history.
LEMMA RetagTypes ==
  ASSUME TypeOK, NEW n \in Names, NEW img \in Defs \union {NoImage}, NEW p \in Procs \union {None},
         Retag(n, img, p)
  PROVE  /\ image' \in [Names -> Defs \union {NoImage}]
         /\ gone' \in [Kinds -> [Names -> 0..MaxTime]]
         /\ mover' \in [Names -> Procs \union {None}]
<1>1. /\ image \in [Names -> Defs \union {NoImage}] /\ now \in 0..MaxTime
      /\ gone \in [Kinds -> [Names -> 0..MaxTime]] /\ mover \in [Names -> Procs \union {None}]
  BY DEF TypeOK
<1>2. image' \in [Names -> Defs \union {NoImage}] /\ mover' \in [Names -> Procs \union {None}]
  BY <1>1 DEF Retag
<1>3. ASSUME NEW k \in Kinds PROVE gone'[k] \in [Names -> 0..MaxTime]
  <2>1. gone[k] \in [Names -> 0..MaxTime]
    BY <1>1
  <2>2. gone'[k] = [gone[k] EXCEPT ![n] =
                      IF Holds(image[n], k) /\ ~Holds(img, k) THEN now ELSE @]
    BY DEF Retag
  <2> QED BY <1>1, <2>1, <2>2
<1>4. gone' = [k \in Kinds |-> gone'[k]]
  BY DEF Retag
<1> QED BY <1>2, <1>3, <1>4

\* The rows of a name stay rows, one per digest.
LEMMA VersionTypes ==
  ASSUME TypeOK, NEW n \in Names, NEW d \in Defs, NEW tag \in Tags \union {None},
         versions' = [versions EXCEPT ![n] = SaveVersion(@, d, tag)]
  PROVE  /\ versions' \in [Names -> Seq(Versions)]
         /\ \A m \in Names : \A i, j \in DOMAIN versions'[m] :
              versions'[m][i].d = versions'[m][j].d => i = j
         /\ versions'[n] # <<>> /\ Head(versions'[n]).d = d
         /\ \A m \in Names \ {n} : versions'[m] = versions[m]
<1> DEFINE new == SaveVersion(versions[n], d, tag)
<1>1. /\ versions \in [Names -> Seq(Versions)]
      /\ \A m \in Names : \A i, j \in DOMAIN versions[m] :
           versions[m][i].d = versions[m][j].d => i = j
  BY DEF TypeOK
<1>2. versions[n] \in Seq(Versions)
  BY <1>1
<1>3. /\ new \in Seq(Versions) /\ new # <<>> /\ Head(new).d = d
      /\ \A i, j \in DOMAIN new : new[i].d = new[j].d => i = j
  BY <1>1, <1>2, SavedRows, Zenon
<1> HIDE DEF new
<1>4. versions' = [versions EXCEPT ![n] = new]
  BY DEF new
<1>5. versions'[n] = new /\ \A m \in Names \ {n} : versions'[m] = versions[m]
  BY <1>1, <1>4
<1> QED BY <1>1, <1>3, <1>4, <1>5

\* The steps of a build.
LEMMA BuildTypes == ASSUME TypeOK, NEW p \in Procs, Building(p) PROVE TypeOK'
<1> DEFINE Rows(v) == /\ v \in [Names -> Seq(Versions)]
                      /\ \A n \in Names : \A i, j \in DOMAIN v[n] : v[n][i].d = v[n][j].d => i = j
<1>0. /\ RegTypeOK
      /\ now \in 0..MaxTime
      /\ image \in [Names -> Defs \union {NoImage}]
      /\ expiry \in [Kinds -> [Names -> 0..(MaxTime + TTL)]]
      /\ gone \in [Kinds -> [Names -> 0..MaxTime]]
      /\ build \in [Procs -> Builds \union {NoBuild}]
      /\ probe \in [Threads -> Probes \union {Idle}]
      /\ mover \in [Names -> Procs \union {None}]
      /\ Rows(versions)
  BY DEF TypeOK
<1> HIDE DEF Rows
<1>a. ASSUME RegTypeOK', now' = now,
             image' \in [Names -> Defs \union {NoImage}],
             expiry' \in [Kinds -> [Names -> 0..(MaxTime + TTL)]],
             gone' \in [Kinds -> [Names -> 0..MaxTime]],
             build' \in [Procs -> Builds \union {NoBuild}],
             probe' \in [Threads -> Probes \union {Idle}],
             mover' \in [Names -> Procs \union {None}],
             Rows(versions')
      PROVE  TypeOK'
  BY <1>0, <1>a DEF TypeOK, Rows
<1>b. ASSUME UNCHANGED versions PROVE Rows(versions')
  BY <1>0, <1>b
<1>c. Cold \in [Kinds -> [Names -> 0..(MaxTime + TTL)]]
  BY ImageConstants DEF Cold
<1>1. ASSUME NEW n \in Names, NEW tag \in Tags \union {None}, BuildStart(p, n, tag) PROVE TypeOK'
  <2>1. RegTypeOK'
    BY <1>0, <1>1, AskedTypes DEF BuildStart
  <2>2. mem[p][n] \in Defs
    BY <1>0, <1>1 DEF BuildStart, RegTypeOK, Maps
  <2>3. build' \in [Procs -> Builds \union {NoBuild}]
    BY <1>0, <1>1, <2>2 DEF BuildStart, Builds
  <2> QED BY <1>0, <1>1, <1>a, <1>b, <2>1, <2>3 DEF BuildStart
<1>2. CASE DockerBuilds(p)
  <2>1. build[p].n \in Names /\ build[p].d \in Defs /\ [build[p] EXCEPT !.at = "reset"] \in Builds
    BY <1>0, <1>2, BuildIs DEF DockerBuilds
  <2>2. build' \in [Procs -> Builds \union {NoBuild}]
    BY <1>0, <1>2, <2>1 DEF DockerBuilds
  <2>3. RegTypeOK'
    BY <1>0, <1>2, SameTypes DEF DockerBuilds
  <2>4. /\ image' \in [Names -> Defs \union {NoImage}]
        /\ gone' \in [Kinds -> [Names -> 0..MaxTime]]
        /\ mover' \in [Names -> Procs \union {None}]
    BY <1>2, <2>1, RetagTypes DEF DockerBuilds
  <2> QED BY <1>0, <1>2, <1>a, <1>b, <2>2, <2>3, <2>4 DEF DockerBuilds
<1>3. CASE BuildFails(p)
  <2>1. RegTypeOK' /\ build' \in [Procs -> Builds \union {NoBuild}]
    BY <1>0, <1>3, SameTypes DEF BuildFails
  <2> QED BY <1>0, <1>3, <1>a, <1>b, <2>1 DEF BuildFails
<1>4. CASE ResetImageCaches(p)
  <2>1. RegTypeOK' /\ [build[p] EXCEPT !.at = "verify"] \in Builds
    BY <1>0, <1>4, SameTypes, BuildIs DEF ResetImageCaches
  <2>2. build' \in [Procs -> Builds \union {NoBuild}]
    BY <1>0, <1>4, <2>1 DEF ResetImageCaches
  <2> QED BY <1>0, <1>4, <1>a, <1>b, <1>c, <2>1, <2>2 DEF ResetImageCaches
<1>5. CASE BuildVerify(p)
  <2>1. RegTypeOK' /\ [build[p] EXCEPT !.at = "version"] \in Builds /\ build[p].n \in Names
    BY <1>0, <1>5, SameTypes, BuildIs DEF BuildVerify
  <2>2. build' \in [Procs -> Builds \union {NoBuild}]
    BY <1>0, <1>5, <2>1 DEF BuildVerify
  <2>3. now + TTL \in 0..(MaxTime + TTL) /\ "entry" \in Kinds
    BY <1>0, ImageConstants DEF Kinds
  <2>4. expiry' \in [Kinds -> [Names -> 0..(MaxTime + TTL)]]
    BY <1>0, <1>5, <2>1, <2>3 DEF BuildVerify
  <2> QED BY <1>0, <1>5, <1>a, <1>b, <2>1, <2>2, <2>4 DEF BuildVerify
<1>6. CASE RegisterVersion(p)
  <2>1. RegTypeOK' /\ build' \in [Procs -> Builds \union {NoBuild}]
    BY <1>0, <1>6, SameTypes DEF RegisterVersion
  <2>2. build[p].n \in Names /\ build[p].d \in Defs /\ build[p].tag \in Tags \union {None}
    BY <1>0, <1>6, BuildIs DEF RegisterVersion
  <2>3. mover' \in [Names -> Procs \union {None}]
    BY <1>0, <1>6 DEF RegisterVersion, Unrecorded
  <2>4. Rows(versions')
    <3>1. CASE versions' = [versions EXCEPT ![build[p].n] = SaveVersion(@, build[p].d, build[p].tag)]
      BY <2>2, <3>1, VersionTypes DEF Rows
    <3> QED BY <1>6, <1>b, <3>1 DEF RegisterVersion
  <2> QED BY <1>0, <1>6, <1>a, <2>1, <2>3, <2>4 DEF RegisterVersion
<1>7. ASSUME NEW n \in Names, RemoveImage(p, n) PROVE TypeOK'
  <2>1. RegTypeOK'
    BY <1>0, <1>7, AskedTypes DEF RemoveImage
  <2>2. /\ image' \in [Names -> Defs \union {NoImage}]
        /\ gone' \in [Kinds -> [Names -> 0..MaxTime]]
        /\ mover' \in [Names -> Procs \union {None}]
    BY <1>7, RetagTypes DEF RemoveImage
  <2> QED BY <1>0, <1>7, <1>a, <1>b, <2>1, <2>2 DEF RemoveImage
<1>8. CASE ProcessEnds(p)
  <2>1. RegTypeOK' /\ build' \in [Procs -> Builds \union {NoBuild}]
    BY <1>0, <1>8, EndTypes DEF ProcessEnds
  <2>2. mover' \in [Names -> Procs \union {None}]
    BY <1>0, <1>8 DEF ProcessEnds, Unrecorded
  <2>3. expiry' \in [Kinds -> [Names -> 0..(MaxTime + TTL)]]
    BY <1>0, <1>8, <1>c DEF ProcessEnds
  <2>4. probe' \in [Threads -> Probes \union {Idle}]
    BY <1>0, <1>8 DEF ProcessEnds
  <2> QED BY <1>0, <1>8, <1>a, <1>b, <2>1, <2>2, <2>3, <2>4 DEF ProcessEnds
<1> QED BY <1>1, <1>2, <1>3, <1>4, <1>5, <1>6, <1>7, <1>8 DEF Building

\* The steps of a thread.
LEMMA RunTypes == ASSUME TypeOK, NEW t \in Threads, Running(t) PROVE TypeOK'
<1>0. /\ RegTypeOK
      /\ now \in 0..MaxTime
      /\ expiry \in [Kinds -> [Names -> 0..(MaxTime + TTL)]]
      /\ probe \in [Threads -> Probes \union {Idle}]
  BY DEF TypeOK
<1> DEFINE Rest == <<now, image, gone, build, mover, versions>>
<1>a. ASSUME RegTypeOK', UNCHANGED Rest, NEW q \in Probes \union {Idle},
             probe' = [probe EXCEPT ![t] = q],
             expiry' \in [Kinds -> [Names -> 0..(MaxTime + TTL)]]
      PROVE  TypeOK'
  <2>1. probe' \in [Threads -> Probes \union {Idle}]
    BY <1>0, <1>a
  <2>2. UNCHANGED <<now, image, gone, build, mover, versions>>
    BY <1>a
  <2> QED BY <1>a, <2>1, <2>2 DEF TypeOK
<1> DEFINE q == probe[t]
<1>q. /\ q.at = "check" => q.k \in Kinds /\ q.n \in Names
      /\ q.at = "asked" => q.k \in Kinds /\ q.n \in Names /\ q.t0 \in 0..MaxTime
      /\ q.at = "answered" => /\ q.k \in Kinds /\ q.n \in Names /\ q.t0 \in 0..MaxTime
                              /\ q.yes \in BOOLEAN
      /\ q.at = "choose" => q.n \in Names
  BY <1>0 DEF Probes, Idle
<1>p. ASSUME q.k \in Kinds, q.n \in Names PROVE Positive(q) \in Probes
  BY <1>p DEF Positive, Probes, Kinds
<1>1. ASSUME NEW n \in Names, StartJob(t, n) PROVE TypeOK'
  <2>1. RegTypeOK'
    BY <1>0, <1>1, AskedTypes DEF StartJob
  <2>2. [at |-> "check", k |-> "exists", n |-> n] \in Probes
    BY DEF Probes, Kinds
  <2> QED BY <1>0, <1>1, <1>a, <2>1, <2>2 DEF StartJob
<1>2. CASE CheckCache(t)
  <2> DEFINE r == IF now < expiry[q.k][q.n] THEN Positive(q)
                  ELSE [at |-> "asked", k |-> q.k, n |-> q.n, t0 |-> now]
  <2>1. RegTypeOK'
    BY <1>0, <1>2, SameTypes DEF CheckCache
  <2>2. q.k \in Kinds /\ q.n \in Names
    BY <1>2, <1>q DEF CheckCache
  <2>3. [at |-> "asked", k |-> q.k, n |-> q.n, t0 |-> now] \in Probes
    BY <1>0, <2>2 DEF Probes
  <2>4. r \in Probes
    BY <1>p, <2>2, <2>3
  <2>5. probe' = [probe EXCEPT ![t] = r] /\ UNCHANGED Rest /\ UNCHANGED expiry
    BY <1>2 DEF CheckCache
  <2> HIDE DEF r, Rest
  <2> QED BY <1>0, <1>a, <2>1, <2>4, <2>5
<1>3. CASE DaemonAnswers(t)
  <2>1. RegTypeOK' /\ UNCHANGED Rest /\ UNCHANGED expiry
    BY <1>0, <1>3, SameTypes DEF DaemonAnswers
  <2>2. q.k \in Kinds /\ q.n \in Names /\ q.t0 \in 0..MaxTime
    BY <1>3, <1>q DEF DaemonAnswers
  <2>3. PICK yes \in {Holds(image[q.n], q.k), FALSE} :
          probe' = [probe EXCEPT ![t] = [at |-> "answered", k |-> q.k, n |-> q.n,
                                         t0 |-> q.t0, yes |-> yes]]
    BY <1>3 DEF DaemonAnswers
  <2> DEFINE r == [at |-> "answered", k |-> q.k, n |-> q.n, t0 |-> q.t0, yes |-> yes]
  <2>4. yes \in BOOLEAN
    BY DEF Holds
  <2>5. r \in Probes
    BY <2>2, <2>4 DEF Probes
  <2>6. probe' = [probe EXCEPT ![t] = r]
    BY <2>3
  <2> HIDE DEF r, Rest
  <2> QED BY <1>0, <1>a, <2>1, <2>5, <2>6
<1>4. CASE StoreAnswer(t)
  <2>1. RegTypeOK' /\ UNCHANGED Rest
    BY <1>0, <1>4, SameTypes DEF StoreAnswer
  <2>2. q.k \in Kinds /\ q.n \in Names /\ q.t0 \in 0..MaxTime
    BY <1>4, <1>q DEF StoreAnswer
  <2>3. q.t0 + TTL \in 0..(MaxTime + TTL)
    BY <2>2, ImageConstants
  <2>4. expiry' \in [Kinds -> [Names -> 0..(MaxTime + TTL)]]
    BY <1>0, <1>4, <2>2, <2>3 DEF StoreAnswer, Lifetime
  <2> DEFINE r == IF q.yes THEN Positive(q) ELSE [at |-> "choose", n |-> q.n]
  <2>5. [at |-> "choose", n |-> q.n] \in Probes
    BY <2>2 DEF Probes
  <2>6. r \in Probes
    BY <1>p, <2>2, <2>5
  <2>7. probe' = [probe EXCEPT ![t] = r]
    BY <1>4 DEF StoreAnswer
  <2> HIDE DEF r, Rest
  <2> QED BY <1>a, <2>1, <2>4, <2>6, <2>7
<1>5. CASE Fallback(t)
  <2>1. RegTypeOK' /\ UNCHANGED Rest /\ UNCHANGED expiry
    BY <1>0, <1>5, SameTypes DEF Fallback
  <2>2. q.n \in Names
    BY <1>5, <1>q DEF Fallback
  <2>3. \A src \in {"base", "default"} : [at |-> "run", n |-> q.n, src |-> src] \in Probes
    BY <2>2 DEF Probes
  <2>4. PICK r \in Probes \union {Idle} : probe' = [probe EXCEPT ![t] = r]
    BY <1>5, <2>3 DEF Fallback
  <2> HIDE DEF Rest
  <2> QED BY <1>0, <1>a, <2>1, <2>4
<1>6. CASE RunImage(t)
  <2>1. RegTypeOK' /\ UNCHANGED Rest /\ UNCHANGED expiry
    BY <1>0, <1>6, SameTypes DEF RunImage
  <2>2. probe' = [probe EXCEPT ![t] = Idle]
    BY <1>6 DEF RunImage
  <2> HIDE DEF Rest
  <2> QED BY <1>0, <1>a, <2>1, <2>2
<1> QED BY <1>1, <1>2, <1>3, <1>4, <1>5, <1>6 DEF Running

\* The initial state is typed ...
LEMMA InitTypes == Init => TypeOK
<1> SUFFICES ASSUME Init PROVE TypeOK
  OBVIOUS
<1>1. RegTypeOK
  BY EmptyIsMap, RegistryConstants DEF Init, RegInit, RegTypeOK, Pc
<1>2. Cold \in [Kinds -> [Names -> 0..MaxTime]] /\ Cold \in [Kinds -> [Names -> 0..(MaxTime + TTL)]]
  BY ImageConstants DEF Cold
<1>3. versions \in [Names -> Seq(Versions)] /\ \A n \in Names : DOMAIN versions[n] = {}
  BY DEF Init
<1> QED BY <1>1, <1>2, <1>3, ImageConstants DEF Init, TypeOK

\* ... and every step keeps it so.
LEMMA NextTypes == ASSUME IInv, TypeOK, [Next]_vars PROVE TypeOK'
<1>1. ASSUME NEW p \in Procs, Registering(p) PROVE TypeOK'
  <2>1. RegTypeOK'
    BY <1>1, RegistryTypes DEF Registering, TypeOK
  <2> QED BY <1>1, <2>1 DEF Registering, imgVars, TypeOK
<1>2. CASE Tick
  <2>1. RegTypeOK' /\ now' \in 0..MaxTime
    BY <1>2, SameTypes, ImageConstants DEF Tick, TypeOK
  <2> QED BY <1>2, <2>1 DEF Tick, TypeOK
<1>3. CASE UNCHANGED vars
  <2>1. RegTypeOK'
    BY <1>3, SameTypes DEF vars, TypeOK
  <2> QED BY <1>3, <2>1 DEF vars, imgVars, TypeOK
<1> QED BY <1>1, <1>2, <1>3, BuildTypes, RunTypes DEF Next

-----------------------------------------------------------------------------
(* What the server believes.                                               *)

\* A tag that ceases to conform is noted at the present, which is no earlier
\* than the question of any belief.
LEMMA BeliefAfterRetag ==
  ASSUME TypeOK, NEW m \in Names, NEW img \in Defs \union {NoImage}, NEW p \in Procs \union {None},
         Retag(m, img, p), UNCHANGED now,
         NEW k \in Kinds, NEW n \in Names, NEW t0 \in Int, Believable(k, n, t0)
  PROVE  Believable(k, n, t0)'
<1>1. /\ image \in [Names -> Defs \union {NoImage}] /\ now \in Int
      /\ gone[k] \in [Names -> 0..MaxTime] /\ gone[k][n] \in Int
  BY DEF TypeOK
<1>2. /\ image' = [image EXCEPT ![m] = img]
      /\ gone'[k] = [gone[k] EXCEPT ![m] = IF Holds(image[m], k) /\ ~Holds(img, k) THEN now ELSE @]
  BY DEF Retag
<1>3. CASE n = m
  <2>1. image'[n] = img
    BY <1>1, <1>2, <1>3
  <2>2. gone'[k][n] = IF Holds(image[n], k) /\ ~Holds(img, k) THEN now ELSE gone[k][n]
    BY <1>1, <1>2, <1>3
  <2>3. CASE Holds(img, k)
    BY <2>1, <2>3 DEF Believable
  <2>4. CASE ~Holds(img, k) /\ Holds(image[n], k)
    BY <1>1, <2>2, <2>4 DEF Believable
  <2>5. CASE ~Holds(image[n], k)
    BY <2>2, <2>5 DEF Believable
  <2> QED BY <2>3, <2>4, <2>5
<1>4. CASE n # m
  BY <1>1, <1>2, <1>4 DEF Believable
<1> QED BY <1>3, <1>4

\* No step revises what was once true of the past.
LEMMA BeliefLasts ==
  ASSUME TypeOK, [Next]_vars,
         NEW k \in Kinds, NEW n \in Names, NEW t0 \in Int, Believable(k, n, t0)
  PROVE  Believable(k, n, t0)'
<1>1. ASSUME UNCHANGED <<image, gone>>, now' = now \/ now' = now + 1 PROVE Believable(k, n, t0)'
  BY <1>1 DEF Believable, TypeOK
<1>2. ASSUME NEW p \in Procs, Building(p) PROVE Believable(k, n, t0)'
  <2>1. CASE DockerBuilds(p)
    <3>1. build[p].n \in Names /\ build[p].d \in Defs
      BY <2>1, BuildIs DEF DockerBuilds, TypeOK
    <3> QED BY <2>1, <3>1, BeliefAfterRetag DEF DockerBuilds
  <2>2. ASSUME NEW m \in Names, RemoveImage(p, m) PROVE Believable(k, n, t0)'
    BY <2>2, BeliefAfterRetag DEF RemoveImage
  <2>3. CASE ~DockerBuilds(p) /\ \A m \in Names : ~RemoveImage(p, m)
    BY <1>1, <1>2, <2>3 DEF Building, BuildStart, BuildFails, ResetImageCaches,
                            BuildVerify, RegisterVersion, ProcessEnds
  <2> QED BY <2>1, <2>2, <2>3
<1>3. ASSUME NEW t \in Threads, Running(t) PROVE Believable(k, n, t0)'
  BY <1>1, <1>3 DEF Running, StartJob, CheckCache, DaemonAnswers, StoreAnswer, Fallback, RunImage
<1>4. CASE Tick
  BY <1>1, <1>4 DEF Tick
<1>5. CASE (\E p \in Procs : Registering(p)) \/ UNCHANGED vars
  BY <1>1, <1>5 DEF Registering, imgVars, vars
<1> QED BY <1>2, <1>3, <1>4, <1>5 DEF Next

\* What the proof looks at: the entries and the answers that a step brings.
LEMMA HonestStep ==
  ASSUME TypeOK, TypeOK', Honest, [Next]_vars, now <= now',
         \A k \in Kinds, n \in Names, t0 \in Int :
           expiry'[k][n] > now' /\ expiry'[k][n] = t0 + TTL
             => expiry'[k][n] = expiry[k][n] \/ Believable(k, n, t0)',
         \A t \in Threads : \A k \in Kinds, n \in Names, t0 \in Int :
           \/ probe'[t] = probe[t]
           \/ probe'[t].at \notin {"asked", "answered"}
           \/ probe'[t].at = "asked" /\ probe'[t].t0 <= now'
           \/ /\ probe'[t].at = "answered"
              /\ probe'[t].yes /\ k = probe'[t].k /\ n = probe'[t].n /\ t0 = probe'[t].t0
                   => Believable(k, n, t0)'
  PROVE  Honest'
<1>1. /\ now \in Nat /\ now' \in Nat /\ TTL \in Nat
      /\ \A k \in Kinds, n \in Names : expiry[k][n] \in Nat /\ expiry'[k][n] \in Nat
  BY ImageConstants DEF TypeOK
<1>2. ASSUME NEW k \in Kinds, NEW n \in Names, NEW t0 \in Int,
             expiry'[k][n] > now', t0 = expiry'[k][n] - TTL
      PROVE  Believable(k, n, t0)'
  <2>1. expiry'[k][n] = t0 + TTL
    BY <1>1, <1>2
  <2>2. CASE expiry'[k][n] = expiry[k][n]
    <3>1. expiry[k][n] > now /\ expiry[k][n] - TTL = t0
      BY <1>1, <1>2, <2>2
    <3>2. Believable(k, n, t0)
      BY <3>1 DEF Honest
    <3> QED BY <3>2, BeliefLasts
  <2> QED BY <1>2, <2>1, <2>2
<1>3. ASSUME NEW t \in Threads, probe'[t].at = "asked" PROVE probe'[t].t0 <= now'
  <2>1. CASE probe'[t] = probe[t]
    <3>1. probe[t].at = "asked" /\ probe[t] \in Probes \union {Idle}
      BY <1>3, <2>1 DEF TypeOK
    <3>2. probe[t].t0 \in Int
      BY <3>1 DEF Probes, Idle
    <3>3. probe[t].t0 <= now
      BY <3>1 DEF Honest
    <3> QED BY <1>1, <2>1, <3>2, <3>3
  <2>2. PICK k \in Kinds, n \in Names, t0 \in Int : TRUE
    BY <1>3 DEF TypeOK, Probes, Idle, Kinds
  <2> QED BY <1>3, <2>1, <2>2
<1>4. ASSUME NEW t \in Threads, NEW k \in Kinds, NEW n \in Names, NEW t0 \in Int,
             probe'[t].at = "answered", probe'[t].yes,
             k = probe'[t].k, n = probe'[t].n, t0 = probe'[t].t0
      PROVE  Believable(k, n, t0)'
  <2>1. CASE probe'[t] = probe[t]
    <3>1. Believable(k, n, t0)
      BY <1>4, <2>1 DEF Honest
    <3> QED BY <3>1, BeliefLasts
  <2> QED BY <1>4, <2>1
<1>5. ASSUME NEW t \in Threads, probe'[t].at = "answered"
      PROVE  probe'[t].k \in Kinds /\ probe'[t].n \in Names /\ probe'[t].t0 \in Int
  BY <1>5 DEF TypeOK, Probes, Idle
<1>6. \A k \in Kinds, n \in Names : expiry'[k][n] - TTL \in Int
  BY <1>1
<1> QED BY <1>2, <1>3, <1>4, <1>5, <1>6 DEF Honest, Believable

\* Caches and probes that stay, or are emptied.
LEMMA HonestQuiet ==
  ASSUME TypeOK, TypeOK', Honest, [Next]_vars, now <= now',
         expiry' = expiry \/ expiry' = Cold,
         probe' = probe \/ probe' = [t \in Threads |-> Idle]
  PROVE  Honest'
<1>1. ASSUME NEW k \in Kinds, NEW n \in Names, expiry'[k][n] > now'
      PROVE  expiry'[k][n] = expiry[k][n]
  BY <1>1 DEF TypeOK, Cold
<1>2. ASSUME NEW t \in Threads
      PROVE  probe'[t] = probe[t] \/ probe'[t].at \notin {"asked", "answered"}
  BY <1>2 DEF Idle
<1> QED BY <1>1, <1>2, HonestStep

\* The build looks at the entrypoint and stores what it sees.
LEMMA VerifyHonest ==
  ASSUME TypeOK, TypeOK', Honest, [Next]_vars, NEW p \in Procs, BuildVerify(p)
  PROVE  Honest'
<1>1. build[p].n \in Names /\ now' = now /\ image' = image /\ gone' = gone /\ probe' = probe
  BY BuildIs DEF BuildVerify, TypeOK
<1>2. ASSUME NEW k \in Kinds, NEW n \in Names, NEW t0 \in Int,
             expiry'[k][n] > now', expiry'[k][n] = t0 + TTL
      PROVE  expiry'[k][n] = expiry[k][n] \/ Believable(k, n, t0)'
  <2>1. CASE expiry' = expiry
    BY <2>1
  <2>2. CASE expiry' # expiry
    <3>1. /\ Holds(image[build[p].n], "entry")
          /\ expiry' = [expiry EXCEPT !["entry"][build[p].n] = now + TTL]
      BY <2>2 DEF BuildVerify
    <3>2. CASE k = "entry" /\ n = build[p].n
      <4>1. expiry'[k][n] = now + TTL /\ now \in Nat /\ TTL \in Nat
        BY <1>1, <3>1, <3>2, ImageConstants DEF TypeOK
      <4>2. t0 = now
        BY <1>2, <4>1
      <4> QED BY <1>1, <3>1, <3>2, <4>1, <4>2 DEF Believable
    <3>3. CASE ~(k = "entry" /\ n = build[p].n)
      BY <3>1, <3>3 DEF TypeOK
    <3> QED BY <3>2, <3>3
  <2> QED BY <2>1, <2>2
<1>3. now <= now'
  BY <1>1 DEF TypeOK
<1> QED BY <1>1, <1>2, <1>3, HonestStep

\* A build that moves a tag ages the answers about it; one that resets the caches drops
\* them.
LEMMA BuildingHonest ==
  ASSUME TypeOK, TypeOK', Honest, [Next]_vars, NEW p \in Procs, Building(p) PROVE Honest'
<1>1. CASE BuildVerify(p)
  BY <1>1, VerifyHonest
<1>2. CASE ~BuildVerify(p)
  <2>1. now' = now /\ (expiry' = expiry \/ expiry' = Cold)
        /\ (probe' = probe \/ probe' = [t \in Threads |-> Idle])
    BY <1>2 DEF Building, BuildStart, DockerBuilds, BuildFails, ResetImageCaches,
                RegisterVersion, RemoveImage, ProcessEnds
  <2>2. now <= now'
    BY <2>1 DEF TypeOK
  <2> QED BY <2>1, <2>2, HonestQuiet
<1> QED BY <1>1, <1>2

\* A thread: the question takes the present time, the answer that of the question,
\* the entry that of the answer.
LEMMA RunningHonest ==
  ASSUME TypeOK, TypeOK', Honest, [Next]_vars, NEW t \in Threads, Running(t) PROVE Honest'
<1> DEFINE q == probe[t]
<1>0. /\ now \in Nat /\ TTL \in Nat
      /\ probe \in [Threads -> Probes \union {Idle}]
      /\ expiry \in [Kinds -> [Names -> 0..(MaxTime + TTL)]]
  BY ImageConstants DEF TypeOK
<1>1. /\ now' = now /\ image' = image /\ gone' = gone /\ now <= now'
      /\ \A u \in Threads \ {t} : probe'[u] = probe[u]
  BY <1>0 DEF Running, StartJob, CheckCache, DaemonAnswers, StoreAnswer, Fallback, RunImage
<1>q. /\ q.at = "asked" => q.k \in Kinds /\ q.n \in Names /\ q.t0 \in Int
      /\ q.at = "answered" => q.k \in Kinds /\ q.n \in Names /\ q.t0 \in Int
  BY <1>0 DEF Probes, Idle
<1>p. Positive(q).at \notin {"asked", "answered"}
  BY DEF Positive
<1>2. CASE expiry' = expiry /\ probe'[t].at \notin {"asked", "answered"}
  BY <1>1, <1>2, HonestStep
<1>3. CASE CheckCache(t)
  <2>1. \/ probe'[t].at \notin {"asked", "answered"}
        \/ probe'[t].at = "asked" /\ probe'[t].t0 = now
    BY <1>0, <1>3, <1>p DEF CheckCache
  <2>2. expiry' = expiry
    BY <1>3 DEF CheckCache
  <2>3. probe'[t].at = "asked" => probe'[t].t0 <= now'
    BY <1>0, <1>1, <2>1
  <2>4. \A u \in Threads :
          \/ probe'[u] = probe[u]
          \/ probe'[u].at \notin {"asked", "answered"}
          \/ probe'[u].at = "asked" /\ probe'[u].t0 <= now'
    BY <1>1, <2>1, <2>3
  <2> QED BY <1>1, <2>2, <2>4, HonestStep
<1>4. CASE DaemonAnswers(t)
  <2>1. q.at = "asked" /\ expiry' = expiry
    BY <1>4 DEF DaemonAnswers
  <2>2. PICK yes \in {Holds(image[q.n], q.k), FALSE} :
          probe' = [probe EXCEPT ![t] = [at |-> "answered", k |-> q.k, n |-> q.n,
                                         t0 |-> q.t0, yes |-> yes]]
    BY <1>4 DEF DaemonAnswers
  <2>3. probe'[t] = [at |-> "answered", k |-> q.k, n |-> q.n, t0 |-> q.t0, yes |-> yes]
    BY <1>0, <2>2
  <2>4. probe'[t].at = "answered" /\ probe'[t].k = q.k /\ probe'[t].n = q.n /\ probe'[t].t0 = q.t0
    BY <2>3
  <2>5. probe'[t].yes = yes
    BY <2>3
  <2>6. probe'[t].yes => Holds(image[q.n], q.k)
    BY <2>5, Zenon
  <2>7. q.t0 <= now
    BY <2>1 DEF Honest
  <2>8. ASSUME NEW k \in Kinds, NEW n \in Names, NEW t0 \in Int,
               probe'[t].yes, k = probe'[t].k, n = probe'[t].n, t0 = probe'[t].t0
        PROVE  Believable(k, n, t0)'
    BY <1>1, <2>4, <2>6, <2>7, <2>8 DEF Believable
  <2> QED BY <1>1, <2>1, <2>4, <2>8, HonestStep
<1>5. CASE StoreAnswer(t) /\ q.yes
  <2>1. /\ q.at = "answered" /\ q.k \in Kinds /\ q.n \in Names /\ q.t0 \in Int
        /\ probe'[t].at \notin {"asked", "answered"}
    BY <1>0, <1>5, <1>p, <1>q DEF StoreAnswer
  <2>2. expiry' = [expiry EXCEPT ![q.k][q.n] = q.t0 + TTL]
    BY <1>5 DEF StoreAnswer, Lifetime
  <2>3. Believable(q.k, q.n, q.t0)
    BY <1>5, <2>1 DEF Honest
  <2>4. ASSUME NEW k \in Kinds, NEW n \in Names, NEW t0 \in Int,
               expiry'[k][n] = t0 + TTL
        PROVE  expiry'[k][n] = expiry[k][n] \/ Believable(k, n, t0)'
    <3>1. CASE k = q.k /\ n = q.n
      <4>1. expiry'[k][n] = q.t0 + TTL
        BY <1>0, <2>1, <2>2, <3>1
      <4>2. t0 = q.t0
        <5>1. q.t0 + TTL = t0 + TTL /\ q.t0 \in Int /\ TTL \in Int
          BY <1>0, <2>1, <2>4, <4>1
        <5> HIDE DEF q
        <5> QED BY <5>1
      <4> QED BY <1>1, <2>3, <3>1, <4>2 DEF Believable
    <3>2. CASE ~(k = q.k /\ n = q.n)
      BY <1>0, <2>1, <2>2, <3>2
    <3> QED BY <3>1, <3>2
  <2> QED BY <1>1, <2>1, <2>4, HonestStep
<1>6. ASSUME (StoreAnswer(t) /\ ~q.yes) \/ Fallback(t) \/ RunImage(t)
      PROVE  expiry' = expiry /\ probe'[t].at \notin {"asked", "answered"}
  BY <1>0, <1>6 DEF StoreAnswer, Fallback, RunImage, Idle
<1>7. ASSUME NEW n \in Names, StartJob(t, n)
      PROVE  expiry' = expiry /\ probe'[t].at \notin {"asked", "answered"}
  BY <1>0, <1>7 DEF StartJob
<1> QED BY <1>2, <1>3, <1>4, <1>5, <1>6, <1>7 DEF Running

\* Every step keeps cached answers as old as they say.
LEMMA NextHonest ==
  ASSUME TypeOK, TypeOK', Honest, [Next]_vars PROVE Honest'
<1>1. CASE (\E p \in Procs : Registering(p)) \/ Tick \/ UNCHANGED vars
  <2>1. (now' = now \/ now' = now + 1) /\ expiry' = expiry /\ probe' = probe
    BY <1>1 DEF Registering, Tick, vars, imgVars
  <2>2. now <= now'
    BY <2>1 DEF TypeOK
  <2> QED BY <2>1, <2>2, HonestQuiet
<1>2. ASSUME NEW p \in Procs, Building(p) PROVE Honest'
  BY <1>2, BuildingHonest
<1>3. ASSUME NEW t \in Threads, Running(t) PROVE Honest'
  BY <1>3, RunningHonest
<1> QED BY <1>1, <1>2, <1>3 DEF Next

-----------------------------------------------------------------------------
(* What the server has recorded.                                           *)

\* A tag that another mover has moved, or nobody the record answers for.
LEMMA RecordedStep ==
  ASSUME Recorded,
         \A p \in Procs : build'[p].at = "version" => build[p].at = "version" \/ p = Server,
         \A n \in Names : mover'[n] = Server => Answers(n)'
  PROVE  Recorded'
BY DEF Recorded

\* A build moves the tag in the name of its process; only the server's goes on to
\* record it.
LEMMA BuildingRecorded ==
  ASSUME TypeOK, Recorded, NEW p \in Procs, Building(p) PROVE Recorded'
<1>0. /\ build \in [Procs -> Builds \union {NoBuild}] /\ image \in [Names -> Defs \union {NoImage}]
      /\ mover \in [Names -> Procs \union {None}] /\ Server # None /\ Server \in Procs
  BY RegistryConstants DEF TypeOK, Procs
<1>r. /\ \A q \in Procs : build[q].at = "version" => q = Server
      /\ \A n \in Names : mover[n] = Server => Answers(n)
  BY DEF Recorded
<1>a. ASSUME \A q \in Procs : build'[q].at = "version" => build[q].at = "version" \/ q = Server,
             \A n \in Names : mover'[n] = Server => Answers(n)'
      PROVE  Recorded'
  BY <1>a, RecordedStep
\* The server's build goes on or another process is at work: tags and rows stay.
<1>b. ASSUME UNCHANGED <<image, versions>>, \A n \in Names : mover'[n] = Server => mover[n] = Server,
             \A n \in Names : mover'[n] = Server =>
               (Moved(n)' <=> Moved(n)) /\ (Moved(n) => build'[Server].d = build[Server].d),
             \A q \in Procs : build'[q].at = "version" => build[q].at = "version" \/ q = Server
      PROVE  Recorded'
  BY <1>a, <1>b, <1>r DEF Answers
<1>1. ASSUME NEW n \in Names, NEW tag \in Tags \union {None}, BuildStart(p, n, tag) PROVE Recorded'
  <2>1. build[p] = NoBuild /\ build[p].at = "idle"
    BY <1>1 DEF BuildStart, NoBuild
  <2>2. /\ build'[p].at = "docker" /\ \A q \in Procs \ {p} : build'[q] = build[q]
    BY <1>0, <1>1 DEF BuildStart
  <2> QED BY <1>0, <1>1, <1>b, <2>1, <2>2 DEF BuildStart, Moved
<1>2. CASE DockerBuilds(p)
  <2> DEFINE m == build[p].n
  <2>1. /\ build[p].at = "docker" /\ m \in Names /\ build[p].d \in Defs
        /\ versions' = versions
    BY <1>0, <1>2, BuildIs DEF DockerBuilds
  <2>2. /\ build'[p] = [build[p] EXCEPT !.at = "reset"]
        /\ \A q \in Procs \ {p} : build'[q] = build[q]
    BY <1>0, <1>2 DEF DockerBuilds
  <2>3. build'[p].at = "reset" /\ build'[p].n = m /\ build'[p].d = build[p].d
    BY <1>0, <2>1, <2>2, BuildIs DEF Builds
  <2>4. /\ image'[m] = build[p].d /\ mover'[m] = p
        /\ \A n \in Names \ {m} : image'[n] = image[n] /\ mover'[n] = mover[n]
    BY <1>0, <1>2, <2>1 DEF DockerBuilds, Retag
  <2>5. ASSUME NEW n \in Names, mover'[n] = Server PROVE Answers(n)'
    <3>1. CASE n = m
      <4>1. p = Server
        BY <2>4, <2>5, <3>1
      <4> QED BY <2>3, <2>4, <3>1, <4>1 DEF Moved, Answers
    <3>2. CASE n # m
      <4>1. Answers(n)
        BY <1>r, <2>4, <2>5, <3>2
      <4>2. (Moved(n)' <=> Moved(n)) /\ (Moved(n) => build'[Server].d = build[Server].d)
        BY <1>0, <2>1, <2>2, <2>3, <3>2 DEF Moved
      <4> QED BY <2>1, <2>4, <3>2, <4>1, <4>2 DEF Answers
    <3> QED BY <3>1, <3>2
  <2> QED BY <1>a, <2>2, <2>3, <2>5
<1>3. CASE BuildFails(p)
  <2>1. build[p].at = "docker" /\ build'[p] = NoBuild /\ \A q \in Procs \ {p} : build'[q] = build[q]
    BY <1>0, <1>3 DEF BuildFails
  <2> QED BY <1>0, <1>3, <1>b, <2>1 DEF BuildFails, Moved, NoBuild
<1>4. ASSUME NEW at \in {"verify", "version"}, build[p].at \in {"reset", "verify"},
             build' = [build EXCEPT ![p] = [build[p] EXCEPT !.at = at]],
             at = "version" => p = Server,
             UNCHANGED <<image, versions, mover>>
      PROVE  Recorded'
  <2>1. /\ build'[p].at = at /\ build'[p].n = build[p].n /\ build'[p].d = build[p].d
        /\ \A q \in Procs \ {p} : build'[q] = build[q]
    <3>1. build[p] \in Builds
      BY <1>0, <1>4, BuildIs
    <3> QED BY <1>0, <1>4, <3>1 DEF Builds
  <2>2. \A q \in Procs : build'[q].at = "version" => build[q].at = "version" \/ q = Server
    BY <1>4, <2>1
  <2>3. \A n \in Names : (Moved(n)' <=> Moved(n)) /\ build'[Server].d = build[Server].d
    BY <1>0, <1>4, <2>1 DEF Moved
  <2> QED BY <1>4, <1>b, <2>2, <2>3
<1>5. CASE ResetImageCaches(p)
  BY <1>4, <1>5 DEF ResetImageCaches
<1>6. CASE BuildVerify(p) /\ p = Server
  BY <1>4, <1>6 DEF BuildVerify
<1>7. CASE BuildVerify(p) /\ p # Server
  <2>1. build'[p] = NoBuild /\ \A q \in Procs \ {p} : build'[q] = build[q]
    BY <1>0, <1>7 DEF BuildVerify
  <2> QED BY <1>0, <1>7, <1>b, <2>1 DEF BuildVerify, Moved, NoBuild
\* Whatever the server gives up, no tag counts as its work afterwards.
<1>u. ASSUME UNCHANGED <<image, versions>>, Unrecorded(p), build' = [build EXCEPT ![p] = NoBuild]
      PROVE  Recorded'
  <2>1. build'[p].at = "idle" /\ \A q \in Procs \ {p} : build'[q] = build[q]
    BY <1>0, <1>u DEF NoBuild
  <2>2. ASSUME NEW n \in Names, mover'[n] = Server PROVE mover[n] = Server
    BY <1>0, <1>u, <2>2 DEF Unrecorded
  <2>3. ASSUME NEW n \in Names, mover'[n] = Server
        PROVE  (Moved(n)' <=> Moved(n)) /\ (Moved(n) => build'[Server].d = build[Server].d)
    <3>1. CASE p = Server
      <4>1. ~Moved(n)'
        BY <2>1, <3>1 DEF Moved
      <4>2. ASSUME Moved(n) PROVE FALSE
        <5>1. build[p] # NoBuild /\ build[p].n = n /\ mover[n] = p
          BY <2>2, <2>3, <3>1, <4>2 DEF Moved, NoBuild
        <5>2. mover'[n] = None
          BY <1>u, <5>1 DEF Unrecorded
        <5> QED BY <1>0, <2>3, <5>2
      <4> QED BY <4>1, <4>2
    <3>2. CASE p # Server
      BY <1>0, <2>1, <3>2 DEF Moved
    <3> QED BY <3>1, <3>2
  <2>5. \A q \in Procs : build'[q].at = "version" => build[q].at = "version" \/ q = Server
    BY <2>1
  <2> QED BY <1>u, <1>b, <2>2, <2>3, <2>5
<1>8. CASE RegisterVersion(p)
  <2> DEFINE b == build[p]
  <2>1. /\ b.at = "version" /\ p = Server /\ b.n \in Names /\ b.d \in Defs
        /\ b.tag \in Tags \union {None} /\ UNCHANGED image
        /\ build' = [build EXCEPT ![p] = NoBuild]
    BY <1>0, <1>r, <1>8, BuildIs DEF RegisterVersion
  <2>2. CASE UNCHANGED versions /\ Unrecorded(p)
    BY <1>u, <2>1, <2>2
  <2>3. CASE /\ versions' = [versions EXCEPT ![b.n] = SaveVersion(@, b.d, b.tag)]
             /\ UNCHANGED mover
    <3>1. /\ versions'[b.n] # <<>> /\ Head(versions'[b.n]).d = b.d
          /\ \A n \in Names \ {b.n} : versions'[n] = versions[n]
      <4>1. PICK n \in Names, d \in Defs, tag \in Tags \union {None} :
              n = b.n /\ d = b.d /\ tag = b.tag
        BY <2>1
      <4>2. versions' = [versions EXCEPT ![n] = SaveVersion(@, d, tag)]
        BY <2>3, <4>1
      <4>3. /\ versions'[n] # <<>> /\ Head(versions'[n]).d = d
            /\ \A m \in Names \ {n} : versions'[m] = versions[m]
        BY <4>2, VersionTypes
      <4> QED BY <4>1, <4>3
    <3>2. ASSUME NEW n \in Names, mover'[n] = Server PROVE Answers(n)'
      <4>1. Answers(n)
        BY <1>r, <2>3, <3>2
      <4>2. ~Moved(n)'
        BY <1>0, <2>1 DEF Moved, NoBuild
      <4>3. CASE n = b.n
        <5>1. b.d = image[n]
          BY <2>1, <4>1, <4>3 DEF Answers, Moved
        <5> QED BY <2>1, <3>1, <4>2, <4>3, <5>1 DEF Answers
      <4>4. CASE n # b.n
        <5>1. ~Moved(n)
          BY <2>1, <4>4 DEF Moved
        <5> QED BY <2>1, <3>1, <4>1, <4>2, <4>4, <5>1 DEF Answers
      <4> QED BY <4>3, <4>4
    <3>3. \A q \in Procs : build'[q].at = "version" => build[q].at = "version" \/ q = Server
      BY <1>0, <2>1 DEF NoBuild
    <3> QED BY <1>a, <3>2, <3>3
  <2> QED BY <1>8, <2>2, <2>3 DEF RegisterVersion
<1>9. ASSUME NEW n \in Names, RemoveImage(p, n) PROVE Recorded'
  <2>1. /\ mover'[n] = None /\ UNCHANGED <<build, versions>>
        /\ \A m \in Names \ {n} : image'[m] = image[m] /\ mover'[m] = mover[m]
    BY <1>0, <1>9 DEF RemoveImage, Retag
  <2>2. ASSUME NEW m \in Names, mover'[m] = Server PROVE Answers(m)'
    BY <1>0, <1>r, <2>1, <2>2 DEF Answers, Moved
  <2> QED BY <1>a, <2>1, <2>2
<1>10. CASE ProcessEnds(p)
  BY <1>10, <1>u DEF ProcessEnds
<1> QED BY <1>1, <1>2, <1>3, <1>5, <1>6, <1>7, <1>8, <1>9, <1>10 DEF Building

\* Every step keeps the last recorded version in agreement with the tag.
LEMMA NextRecorded == ASSUME TypeOK, Recorded, [Next]_vars PROVE Recorded'
<1>1. ASSUME UNCHANGED <<image, build, versions, mover>> PROVE Recorded'
  <2>1. \A n \in Names : mover'[n] = Server => Answers(n)'
    BY <1>1 DEF Recorded, Answers, Moved
  <2> QED BY <1>1, <2>1, RecordedStep
<1>2. ASSUME NEW p \in Procs, Building(p) PROVE Recorded'
  BY <1>2, BuildingRecorded
<1>3. ASSUME NEW t \in Threads, Running(t) PROVE UNCHANGED <<image, build, versions, mover>>
  BY <1>3 DEF Running, StartJob, CheckCache, DaemonAnswers, StoreAnswer, Fallback, RunImage
<1>4. CASE (\E p \in Procs : Registering(p)) \/ Tick \/ UNCHANGED vars
  BY <1>1, <1>4 DEF Registering, Tick, vars, imgVars
<1> QED BY <1>1, <1>2, <1>3, <1>4 DEF Next

-----------------------------------------------------------------------------
JInv == IInv /\ TypeOK /\ Honest /\ Recorded

\* The initial state satisfies all of it ...
LEMMA ImagesInit == Init => JInv
<1> SUFFICES ASSUME Init PROVE JInv
  OBVIOUS
<1>1. Honest
  BY DEF Init, Honest, Cold, Idle
<1>2. Recorded
  <2>1. \A n \in Names : mover[n] # Server
    BY RegistryConstants DEF Init, Procs
  <2>2. \A p \in Procs : build[p].at = "idle"
    BY DEF Init, NoBuild
  <2> QED BY <2>1, <2>2 DEF Recorded
<1> QED BY <1>1, <1>2, InitInv, InitTypes DEF JInv

\* ... and so does every reachable one.
LEMMA ImagesInvariant == Spec => []JInv
<1>1. JInv /\ [Next]_vars => JInv'
  BY NextStep, NextTypes, NextHonest, NextRecorded DEF JInv
<1> QED BY <1>1, ImagesInit, PTL DEF Spec

\* Every variable keeps its type: a lock held is that of a process inside _save(),
\* and job_versions keeps one row per digest (JobTypeRegistry._save, save_version).
THEOREM ImageTypes == Spec => []TypeOK
<1>1. JInv => TypeOK
  BY DEF JInv
<1> QED BY <1>1, ImagesInvariant, PTL

\* However rebuilds, removals, resets of the caches and the questions of the
\* threads interleave, a cached answer is never older than its lifetime says
\* (_resolve_image, the image caches of docker.py).
THEOREM CachesHonest == Spec => []CacheHonest
<1>1. JInv => CacheHonest
  BY DEF JInv, Honest, Believable, CacheHonest
<1> QED BY <1>1, ImagesInvariant, PTL

\* Whoever builds and removes images meanwhile, the latest version on record is
\* the image behind the tag as long as the server was the last to move it and
\* could save the version (the build endpoint, save_version, VersionManager).
THEOREM LatestIsImage == Spec => []LatestVersionIsImage
<1>1. JInv => LatestVersionIsImage
  <2> SUFFICES ASSUME JInv, NEW n \in Names, mover[n] = Server,
                      build[Server] # NoBuild => build[Server].n # n
               PROVE  \E r \in Resolve(n, None) : image[n] = r.d
    BY DEF LatestVersionIsImage
  <2>1. ~Moved(n)
    BY DEF Moved, NoBuild
  <2>2. versions[n] # <<>> /\ Head(versions[n]).d = image[n]
    BY <2>1 DEF JInv, Recorded, Answers
  <2>3. Resolve(n, None) = {Head(versions[n])}
    BY <2>2, ImageConstants DEF Resolve
  <2> QED BY <2>2, <2>3
<1> QED BY <1>1, ImagesInvariant, PTL
=============================================================================
