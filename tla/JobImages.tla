------------------------------ MODULE JobImages ------------------------------
(***************************************************************************)
(* Images of job types: ContainerBuilder.build and the build endpoint that *)
(* records a version, the image caches of docker.py, and the choice of the *)
(* image a job runs (CodeExecutor._resolve_image).                         *)
(*                                                                         *)
(* All images of a job type share one tag, tako-vm-<name>:latest, which    *)
(* any process that reaches the daemon may move or remove, while the       *)
(* threads of the server believe what they learnt about it for TTL.        *)
(***************************************************************************)
EXTENDS JobTypeRegistry, Sequences

CONSTANTS NoImage,   \* the tag does not exist
          Threads,   \* threads of the server that execute jobs
          Tags,      \* semantic version tags
          TTL,       \* _IMAGE_CACHE_TTL_SECONDS
          MaxTime    \* bound of the clock

\* What a base image may be: none named, derived from the executor image, any
\* other image on the host, a name the daemon does not know, an invalid name.
Bases == {"none", "executor", "raw", "missing", "invalid"}

ASSUME ImageConstants ==
  /\ \A d \in Defs : d.base \in Bases
  /\ NoImage \notin Defs /\ None \notin Defs
  /\ TTL \in Nat \ {0} /\ MaxTime \in Nat

VARIABLES now,       \* time.monotonic()
          image,     \* the daemon: what each tag holds, by the definition built
          expiry,    \* the server's two caches of positive answers
          gone,      \* history: when a tag last ceased to exist / to conform
          build,     \* the build each process is in
          probe,     \* the question about an image each thread is in
          versions,  \* job_versions of each job type, latest built_at first
          mover      \* history: who moved a tag last, the server only as long
                     \* as the version of that build is or may yet be recorded

imgVars == <<now, image, expiry, gone, build, probe, versions, mover>>
vars == <<regVars, imgVars>>

Kinds == {"exists", "entry"}    \* image_exists, image_has_executor_entrypoint

NoBuild == [at |-> "idle"]
Idle == [at |-> "idle"]

Versions == [d : Defs, tag : Tags \union {None}]

Builds == [at : {"docker", "reset", "verify", "version"}, n : Names, d : Defs,
           tag : Tags \union {None}]
Probes == [at : {"check"}, k : Kinds, n : Names]
          \union [at : {"asked"}, k : Kinds, n : Names, t0 : 0..MaxTime]
          \union [at : {"answered"}, k : Kinds, n : Names, t0 : 0..MaxTime, yes : BOOLEAN]
          \union [at : {"choose"}, n : Names] \union [at : {"run"}, n : Names, src : {"built", "base", "default"}]

\* The types of all variables; versions also never holds a digest twice.
TypeOK ==
  /\ RegTypeOK
  /\ now \in 0..MaxTime
  /\ image \in [Names -> Defs \union {NoImage}]
  /\ expiry \in [Kinds -> [Names -> 0..(MaxTime + TTL)]]
  /\ gone \in [Kinds -> [Names -> 0..MaxTime]]
  /\ build \in [Procs -> Builds \union {NoBuild}]
  /\ probe \in [Threads -> Probes \union {Idle}]
  /\ mover \in [Names -> Procs \union {None}]
  /\ versions \in [Names -> Seq(Versions)]
  /\ \A n \in Names : \A i, j \in DOMAIN versions[n] :
       versions[n][i].d = versions[n][j].d => i = j

Cold == [k \in Kinds |-> [n \in Names |-> 0]]

Init ==
  /\ RegInit
  /\ now = 0
  /\ image = [n \in Names |-> NoImage]
  /\ expiry = Cold /\ gone = Cold
  /\ build = [p \in Procs |-> NoBuild]
  /\ probe = [t \in Threads |-> Idle]
  /\ versions = [n \in Names |-> <<>>]
  /\ mover = [n \in Names |-> None]

-----------------------------------------------------------------------------
\* What `docker image inspect` finds in a tag.
Holds(img, k) ==
  img # NoImage /\ (k = "entry" => img.base \in {"none", "executor"})

\* The daemon points the tag of n at another image, or at none.
Retag(n, img, p) ==
  /\ image' = [image EXCEPT ![n] = img]
  /\ gone' = [k \in Kinds |-> [gone[k] EXCEPT ![n] =
                IF Holds(image[n], k) /\ ~Holds(img, k) THEN now ELSE @]]
  /\ mover' = [mover EXCEPT ![n] = p]

\* generate_dockerfile: an invalid name is refused; without a base image the
\* executor image is the base.
GenerateDockerfile(d) == d.base # "invalid"

\* build(), and the endpoint, start from the definition the process has in
\* memory.  One build at a time in a process: the endpoint blocks the loop.
BuildStart(p, n, tag) ==
  /\ Asked
  /\ pc[p] = "ready" /\ build[p] = NoBuild
  /\ mem[p][n] # NoDef
  /\ GenerateDockerfile(mem[p][n])
  /\ build' = [build EXCEPT ![p] = [at |-> "docker", n |-> n, d |-> mem[p][n], tag |-> tag]]
  /\ UNCHANGED <<file, mem, pc, temp, lock, faults, now, image, expiry, gone, probe, versions, mover>>

\* `docker build` succeeds and moves the tag.
DockerBuilds(p) ==
  /\ build[p].at = "docker"
  /\ build[p].d.base # "missing"
  /\ Retag(build[p].n, build[p].d, p)
  /\ build' = [build EXCEPT ![p].at = "reset"]
  /\ UNCHANGED <<regVars, now, expiry, probe, versions>>

\* No build context, a failing or an endless `docker build`: BuildError.
BuildFails(p) ==
  /\ build[p].at = "docker"
  /\ build' = [build EXCEPT ![p] = NoBuild]
  /\ UNCHANGED <<regVars, now, image, expiry, gone, probe, versions, mover>>

\* reset_image_caches clears the caches of this process, not of the server if
\* the builder is another one.
ResetImageCaches(p) ==
  /\ build[p].at = "reset"
  /\ expiry' = IF p = Server THEN Cold ELSE expiry
  /\ build' = [build EXCEPT ![p].at = "verify"]
  /\ UNCHANGED <<regVars, now, image, gone, probe, versions, mover>>

\* build() looks at the entrypoint once more, only to warn.  A positive answer
\* is cached.  Outside the endpoint the build is then over.
BuildVerify(p) ==
  LET b == build[p] IN
  /\ b.at = "verify"
  /\ expiry' = IF p = Server /\ Holds(image[b.n], "entry")
                 THEN [expiry EXCEPT !["entry"][b.n] = now + TTL] ELSE expiry
  /\ build' = [build EXCEPT ![p] = IF p = Server THEN [b EXCEPT !.at = "version"] ELSE NoBuild]
  /\ UNCHANGED <<regVars, now, image, gone, probe, versions, mover>>

\* The rows of the other digests.  There is one row per digest.
OtherRows(rows, d) ==
  LET same == {i \in DOMAIN rows : rows[i].d = d}
      k == CHOOSE i \in same : TRUE
  IN  IF same = {} THEN rows ELSE SubSeq(rows, 1, k - 1) \o SubSeq(rows, k + 1, Len(rows))

\* Mutant: the oldest version counts as the latest.
SaveVersionLast(rows, d, tag) == Append(OtherRows(rows, d), [d |-> d, tag |-> tag])

\* save_version: one row per digest.  A row that exists takes the new built_at
\* and the new tag, or loses the tag it had.
SaveVersion(rows, d, tag) == <<[d |-> d, tag |-> tag]>> \o OtherRows(rows, d)

\* The server gives up the version of a build that may have moved the tag.
Unrecorded(p) ==
  mover' = [n \in Names |-> IF mover[n] = p /\ build[p] # NoBuild /\ build[p].n = n
                              THEN None ELSE mover[n]]

\* The endpoint records the version; if that fails the answer is 500, with the
\* image in place all the same.
RegisterVersion(p) ==
  LET b == build[p] IN
  /\ b.at = "version"
  /\ \/ /\ versions' = [versions EXCEPT ![b.n] = SaveVersion(@, b.d, b.tag)]
        /\ UNCHANGED mover
     \/ UNCHANGED versions /\ Unrecorded(p)
  /\ build' = [build EXCEPT ![p] = NoBuild]
  /\ UNCHANGED <<regVars, now, image, expiry, gone, probe>>

\* VersionManager.resolve: the latest version, the one of a digest, or one that
\* bears the tag (any: the query has no order).
Resolve(n, spec) ==
  LET rows == {versions[n][i] : i \in DOMAIN versions[n]}
  IN  CASE spec = None    -> IF versions[n] = <<>> THEN {} ELSE {Head(versions[n])}
        [] spec \in Defs  -> {r \in rows : r.d = spec}
        [] OTHER          -> {r \in rows : r.tag = spec}

\* remove_image: no cache hears of it.
RemoveImage(p, n) ==
  /\ Asked
  /\ pc[p] = "ready" /\ image[n] # NoImage
  /\ Retag(n, NoImage, None)
  /\ UNCHANGED <<file, mem, pc, temp, lock, faults, now, expiry, build, probe, versions>>

-----------------------------------------------------------------------------
(* CodeExecutor._resolve_image, on a thread of the server.  Each question  *)
(* reads the clock and the cache, then asks the daemon, then stores the    *)
(* answer: three moments, between which tags move and caches are cleared.  *)

StartJob(t, n) ==
  /\ Asked
  /\ pc[Server] = "ready" /\ probe[t] = Idle /\ mem[Server][n] # NoDef
  /\ probe' = [probe EXCEPT ![t] = [at |-> "check", k |-> "exists", n |-> n]]
  /\ UNCHANGED <<file, mem, pc, temp, lock, faults, now, image, expiry, gone, build, versions, mover>>

\* A positive answer leads to the next question or to the built image.
Positive(q) ==
  IF q.k = "exists" THEN [at |-> "check", k |-> "entry", n |-> q.n]
                    ELSE [at |-> "run", n |-> q.n, src |-> "built"]

\* now = time.monotonic(), and the lookup in the cache.
CheckCache(t) ==
  LET q == probe[t] IN
  /\ q.at = "check"
  /\ probe' = [probe EXCEPT ![t] =
       IF now < expiry[q.k][q.n] THEN Positive(q)
       ELSE [at |-> "asked", k |-> q.k, n |-> q.n, t0 |-> now]]
  /\ UNCHANGED <<regVars, now, image, expiry, gone, build, versions, mover>>

\* The daemon answers, or does not in time: then the answer is no.
DaemonAnswers(t) ==
  LET q == probe[t] IN
  /\ q.at = "asked"
  /\ \E yes \in {Holds(image[q.n], q.k), FALSE} :
       probe' = [probe EXCEPT ![t] = [at |-> "answered", k |-> q.k, n |-> q.n,
                                      t0 |-> q.t0, yes |-> yes]]
  /\ UNCHANGED <<regVars, now, image, expiry, gone, build, versions, mover>>

\* Mutant: the lifetime starts when the answer is stored.
LifetimeFromStore(q) == now + TTL

\* The end of the lifetime of an answer asked for at q.t0.
Lifetime(q) == q.t0 + TTL

\* Only positive answers are cached; a negative one sends the job to its base
\* image.
StoreAnswer(t) ==
  LET q == probe[t] IN
  /\ q.at = "answered"
  /\ expiry' = IF q.yes THEN [expiry EXCEPT ![q.k][q.n] = Lifetime(q)] ELSE expiry
  /\ probe' = [probe EXCEPT ![t] =
       IF q.yes THEN Positive(q) ELSE [at |-> "choose", n |-> q.n]]
  /\ UNCHANGED <<regVars, now, image, gone, build, versions, mover>>

\* No usable built image: without a base image the default executor image is
\* run; a base image must conform itself, which the daemon may fail to say, or
\* the job is refused.
Fallback(t) ==
  LET q == probe[t]  base == mem[Server][q.n].base IN
  /\ q.at = "choose"
  /\ \/ /\ base \in {"none", "executor"}
        /\ probe' = [probe EXCEPT ![t] = [at |-> "run", n |-> q.n,
                       src |-> IF base = "none" THEN "default" ELSE "base"]]
     \/ base # "none" /\ probe' = [probe EXCEPT ![t] = Idle]
  /\ UNCHANGED <<regVars, now, image, expiry, gone, build, versions, mover>>

\* `docker run` with the chosen image; how it ends is JobExecution's matter.
\* A built image is run without installing the requirements of the job type.
RunImage(t) ==
  /\ probe[t].at = "run"
  /\ probe' = [probe EXCEPT ![t] = Idle]
  /\ UNCHANGED <<regVars, now, image, expiry, gone, build, versions, mover>>

-----------------------------------------------------------------------------
\* A process takes its build with it, and the server its caches and threads;
\* what the daemon finished stays.
ProcessEnds(p) ==
  /\ End(p)
  /\ Unrecorded(p)
  /\ build' = [build EXCEPT ![p] = NoBuild]
  /\ IF p = Server THEN expiry' = Cold /\ probe' = [t \in Threads |-> Idle]
                   ELSE UNCHANGED <<expiry, probe>>
  /\ UNCHANGED <<now, image, gone, versions>>

Tick ==
  /\ now < MaxTime /\ now' = now + 1
  /\ UNCHANGED <<regVars, image, expiry, gone, build, probe, versions, mover>>

Registering(p) == RegNext(p) /\ UNCHANGED imgVars

Building(p) ==
  \/ \E n \in Names, tag \in Tags \union {None} : BuildStart(p, n, tag)
  \/ DockerBuilds(p) \/ BuildFails(p) \/ ResetImageCaches(p) \/ BuildVerify(p)
  \/ RegisterVersion(p)
  \/ \E n \in Names : RemoveImage(p, n)
  \/ ProcessEnds(p)

Running(t) ==
  \/ \E n \in Names : StartJob(t, n)
  \/ CheckCache(t) \/ DaemonAnswers(t) \/ StoreAnswer(t) \/ Fallback(t) \/ RunImage(t)

Next ==
  \/ \E p \in Procs : Registering(p) \/ Building(p)
  \/ \E t \in Threads : Running(t)
  \/ Tick

Spec == Init /\ [][Next]_vars

-----------------------------------------------------------------------------
\* What the server believes of an image is at most TTL old: as long as a cached
\* answer counts, the tag conforms, or ceased to no earlier than TTL before the
\* answer expires.  The answer is stored after the daemon gave it, perhaps after
\* a rebuild has cleared the caches, so an answer from before a rebuild may be
\* believed after it; it must not live longer for that.
CacheHonest ==
  \A k \in Kinds, n \in Names :
    expiry[k][n] > now => \/ Holds(image[n], k)
                          \/ gone[k][n] >= expiry[k][n] - TTL

\* The latest version on record is the image behind the tag, if the last one to
\* move the tag was a build of the server that is over and whose version could
\* be saved.
LatestVersionIsImage ==
  \A n \in Names :
    mover[n] = Server /\ (build[Server] # NoBuild => build[Server].n # n)
      => \E r \in Resolve(n, None) : image[n] = r.d
=============================================================================
