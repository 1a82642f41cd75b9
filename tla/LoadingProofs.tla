--------------------------- MODULE LoadingProofs ----------------------------
(***************************************************************************)
(* Theorems about Loading, for every set of hosts, calls, paths and WASI   *)
(* parameters and for every guest: the directories that contexts share,    *)
(* the linking of a guest on the Wasmtime engine, and the init of the      *)
(* wasm3 engine.                                                           *)
(***************************************************************************)
EXTENDS Loading, FiniteSetTheorems, TLAPS

USE DEF CacheKey, Opens, ProviderLinker

-----------------------------------------------------------------------------
(* Type correctness.                                                       *)

\* What a host preopens is a list of pairs of paths.
LEMMA PreopensType ==
    ASSUME NEW h \in HostIds
    PROVE  Preopens(h) \in Seq(Paths \X Paths)
<1>1. preopened_dirs[h] \in Seq(Paths) /\ map_dirs[h] \in Seq(Paths \X Paths)
    BY WasiParamsAssumption
<1>2. [i \in 1..Len(preopened_dirs[h]) |->
          <<preopened_dirs[h][i], preopened_dirs[h][i]>>] \in Seq(Paths \X Paths)
    BY <1>1
<1> QED
    BY <1>1, <1>2 DEF Preopens

\* A list of directories is one of more directories, too.
LEMMA MoreDirs ==
    ASSUME NEW m \in Nat, NEW n \in Nat, m =< n, NEW s \in Seq(1..m)
    PROVE  s \in Seq(1..n)
OBVIOUS

\* The contexts keep their type when there is a new directory.
LEMMA MoreContexts ==
    ASSUME HostsTypeOK, NEW n \in Nat, Len(origin) =< n
    PROVE  ctx \in [Contexts -> [host : HostIds, state : ContextStates,
                                 dirs : Seq(1..n)]]
<1>1. Len(origin) \in Nat
    BY DEF HostsTypeOK
<1>2. ASSUME NEW c \in Contexts
      PROVE  ctx[c] \in [host : HostIds, state : ContextStates, dirs : Seq(1..n)]
  <2>1. ctx[c] \in [host : HostIds, state : ContextStates, dirs : Seq(Dirs)]
    BY DEF HostsTypeOK
  <2>2. ctx[c].dirs \in Seq(1..n)
    BY <1>1, <2>1, MoreDirs DEF Dirs
  <2> QED
    BY <2>1, <2>2
<1> QED
    BY <1>2 DEF HostsTypeOK

\* The next directory that a context opens is at one of the paths.
LEMMA NextPreopenType ==
    ASSUME HostsTypeOK, NEW c \in Contexts, Opening(c)
    PROVE  /\ NextPreopen(c)[2] \in Paths
           /\ Len(ctx[c].dirs) \in Nat
           /\ Len(ctx[c].dirs) + 1 \in 1..Len(Preopens(ctx[c].host))
<1>1. ctx[c].host \in HostIds /\ ctx[c].dirs \in Seq(Dirs)
    BY DEF HostsTypeOK
<1>2. Preopens(ctx[c].host) \in Seq(Paths \X Paths)
    BY <1>1, PreopensType
<1>3. Len(ctx[c].dirs) + 1 \in 1..Len(Preopens(ctx[c].host))
    BY <1>1, <1>2 DEF Opening
<1>4. NextPreopen(c) \in Paths \X Paths
    BY <1>2, <1>3 DEF NextPreopen
<1> QED
    BY <1>1, <1>3, <1>4

\* Lookup, opening and insertion in one, as the lock of get_dir makes them: the
\* directory that the context gets is the one in the cache afterwards.
LEMMA GetDir ==
    ASSUME HostsTypeOK, NEW c \in Contexts, get_dir(c)
    PROVE  LET p == NextPreopen(c)[2]
           IN  /\ p \in DOMAIN OPEN_DIRECTORIES'
               /\ DOMAIN OPEN_DIRECTORIES' = DOMAIN OPEN_DIRECTORIES \cup {p}
               /\ \A q \in DOMAIN OPEN_DIRECTORIES :
                      OPEN_DIRECTORIES'[q] = OPEN_DIRECTORIES[q]
               /\ OPEN_DIRECTORIES'[p] \in Dirs
               /\ p \notin DOMAIN OPEN_DIRECTORIES => OPEN_DIRECTORIES'[p] = fs[p]
               /\ ctx' = [ctx EXCEPT ![c].dirs = Append(@, OPEN_DIRECTORIES'[p])]
<1> DEFINE p == NextPreopen(c)[2]
<1>1. p \in Paths
    BY NextPreopenType DEF get_dir
<1>2. CASE p \in DOMAIN OPEN_DIRECTORIES
    BY <1>2 DEF get_dir, HostsTypeOK
<1>3. CASE p \notin DOMAIN OPEN_DIRECTORIES
  <2>1. /\ fs[p] # 0
        /\ ctx' = [ctx EXCEPT ![c].dirs = Append(@, fs[p])]
        /\ OPEN_DIRECTORIES' = Inserted(OPEN_DIRECTORIES, p, fs[p])
    BY <1>3 DEF get_dir
  <2>2. fs[p] \in Dirs
    BY <1>1, <2>1 DEF HostsTypeOK, Dirs
  <2> QED
    BY <1>3, <2>1, <2>2 DEF Inserted
<1> QED
    BY <1>2, <1>3

\* The steps of the Wasmtime engine keep the types.
LEMMA HostsTypeStep ==
    ASSUME HostsTypeOK, HostsNext
    PROVE  HostsTypeOK'
<1>1. ASSUME NEW p \in Paths, CreateDir(p)
      PROVE  HostsTypeOK'
  <2>1. /\ origin' = Append(origin, p)
        /\ fs' = [fs EXCEPT ![p] = Len(origin')]
        /\ UNCHANGED <<built, OPEN_DIRECTORIES, ctx>>
    BY <1>1 DEF CreateDir
  <2>2. /\ origin' \in Seq(Paths) /\ Len(origin) \in Nat
        /\ Len(origin') = Len(origin) + 1
    BY <2>1 DEF HostsTypeOK
  <2>3. ctx' \in [Contexts -> [host : HostIds, state : ContextStates,
                               dirs : Seq(Dirs')]]
    BY <2>1, <2>2, MoreContexts DEF Dirs
  <2>4. fs' \in [Paths -> 0..Len(origin')]
    BY <2>1, <2>2 DEF HostsTypeOK
  <2>5. \A q \in DOMAIN OPEN_DIRECTORIES' : OPEN_DIRECTORIES'[q] \in Dirs'
    BY <2>1, <2>2 DEF HostsTypeOK, Dirs
  <2> QED
    BY <2>1, <2>2, <2>3, <2>4, <2>5 DEF HostsTypeOK
<1>2. ASSUME NEW p \in Paths, RemoveDir(p)
      PROVE  HostsTypeOK'
    BY <1>2 DEF RemoveDir, HostsTypeOK, Dirs
<1>3. ASSUME NEW h \in HostIds, NewHost(h)
      PROVE  HostsTypeOK'
    BY <1>3 DEF NewHost, HostsTypeOK, Dirs
<1>4. ASSUME NEW h \in HostIds, NEW c \in Contexts, NewState(c, h)
      PROVE  HostsTypeOK'
    BY <1>4 DEF NewState, HostsTypeOK, Dirs, ContextStates
<1>5. ASSUME NEW c \in Contexts, get_dir(c)
      PROVE  HostsTypeOK'
  <2>1. UNCHANGED <<built, fs, origin>> /\ Opening(c)
    BY <1>5 DEF get_dir
  <2>2. NextPreopen(c)[2] \in Paths
    BY <2>1, NextPreopenType
  <2>3. PICK d \in Dirs : ctx' = [ctx EXCEPT ![c].dirs = Append(@, d)]
    BY <1>5, GetDir
  <2>4. ctx' \in [Contexts -> [host : HostIds, state : ContextStates,
                               dirs : Seq(Dirs)]]
    <3>1. /\ ctx[c] \in [host : HostIds, state : ContextStates, dirs : Seq(Dirs)]
          /\ Append(ctx[c].dirs, d) \in Seq(Dirs)
        BY DEF HostsTypeOK
    <3>2. [ctx[c] EXCEPT !.dirs = Append(@, d)]
              \in [host : HostIds, state : ContextStates, dirs : Seq(Dirs)]
        BY <3>1
    <3> QED
        BY <2>3, <3>2 DEF HostsTypeOK
  <2>5. /\ DOMAIN OPEN_DIRECTORIES' \subseteq Paths
        /\ \A q \in DOMAIN OPEN_DIRECTORIES' : OPEN_DIRECTORIES'[q] \in Dirs
    <3> DEFINE p == NextPreopen(c)[2]
    <3>1. /\ DOMAIN OPEN_DIRECTORIES' = DOMAIN OPEN_DIRECTORIES \cup {p}
          /\ \A q \in DOMAIN OPEN_DIRECTORIES :
                 OPEN_DIRECTORIES'[q] = OPEN_DIRECTORIES[q]
          /\ OPEN_DIRECTORIES'[p] \in Dirs
        BY <1>5, GetDir
    <3> HIDE DEF p
    <3> QED
        BY <2>2, <3>1 DEF HostsTypeOK, p
  <2> QED
    BY <2>1, <2>4, <2>5 DEF HostsTypeOK, Dirs
<1>6. ASSUME NEW c \in Contexts,
             OpenFails(c) \/ InitCtxFails(c) \/ NewContext(c)
      PROVE  HostsTypeOK'
  <2>1. /\ UNCHANGED <<built, OPEN_DIRECTORIES, fs, origin>>
        /\ \E s \in ContextStates : ctx' = [ctx EXCEPT ![c].state = s]
    BY <1>6 DEF OpenFails, InitCtxFails, NewContext, ContextStates
  <2> QED
    BY <2>1 DEF HostsTypeOK, Dirs
<1> QED
    BY <1>1, <1>2, <1>3, <1>4, <1>5, <1>6 DEF HostsNext

\* The tables of the wasm3 engine.
LEMMA Lengths == Len(Closures) = 10 /\ Len(REQUIRED_STARTS) = 2
BY DEF Closures, REQUIRED_STARTS

\* Its steps keep the types.
LEMMA Wasm3TypeStep ==
    ASSUME Wasm3TypeOK, Wasm3Next, guest' = guest
    PROVE  Wasm3TypeOK'
<1>1. ASSUME NEW ok \in BOOLEAN, Load(ok) \/ Starter(ok)
      PROVE  Wasm3TypeOK'
  <2>1. w3pc' \in Wasm3PCs
    BY <1>1 DEF Load, Starter, Wasm3TypeOK, Wasm3PCs
  <2>2. /\ step' = step \/ (step' = step + 1 /\ step < Len(REQUIRED_STARTS))
        /\ UNCHANGED <<linked, w3result>>
    BY <1>1 DEF Load, Starter
  <2> QED
    BY <2>1, <2>2, Lengths DEF Wasm3TypeOK
<1>2. CASE link_closure
  <2>1. /\ w3pc' \in {w3pc, "failed"}
        /\ linked' = linked \/ (Links(Closures[step + 1])
                                /\ linked' = linked \cup {Closures[step + 1][1]})
        /\ step < Len(Closures) /\ step' = step + 1 /\ w3result' = w3result
    BY <1>2 DEF link_closure
  <2> QED
    BY <2>1, Lengths DEF Wasm3TypeOK, Wasm3PCs, Links
<1>3. CASE EnvironmentFails \/ FindGuestCall \/ InitDone
    BY <1>3, Lengths
    DEF EnvironmentFails, FindGuestCall, InitDone, Wasm3TypeOK, Wasm3PCs
<1>4. ASSUME NEW used \in SUBSET DOMAIN guest.imports, Wasm3Call(used)
      PROVE  Wasm3TypeOK'
    BY <1>4 DEF Wasm3Call, Wasm3TypeOK
<1> QED
    BY <1>1, <1>2, <1>3, <1>4 DEF Wasm3Next

\* Neither engine touches the other's state, nor the guest.
LEMMA EngineStep ==
    ASSUME [Next]_vars
    PROVE  /\ guest' = guest
           /\ HostsNext \/ UNCHANGED hostVars
           /\ Wasm3Next \/ UNCHANGED wasm3Vars
BY DEF Next, vars

\* Both engines start with their types.
LEMMA LoadingTypeInit == Init => TypeOK
<1> SUFFICES ASSUME Init PROVE TypeOK
    OBVIOUS
<1>1. PICK h \in HostIds :
          ctx = [c \in Contexts |-> [host |-> h, state |-> "none", dirs |-> <<>>]]
    BY HostIdsAssumption DEF Init, HostsInit
<1>2. ctx \in [Contexts ->
                   [host : HostIds, state : ContextStates, dirs : Seq(Dirs)]]
    BY <1>1 DEF ContextStates
<1>3. HostsTypeOK
    BY <1>2 DEF Init, HostsInit, HostsTypeOK
<1>4. Wasm3TypeOK
    BY Lengths DEF Init, Wasm3Init, Wasm3TypeOK, Wasm3PCs
<1> QED
    BY <1>3, <1>4 DEF TypeOK

\* Every step keeps them.
LEMMA LoadingTypeStep ==
    ASSUME TypeOK, [Next]_vars
    PROVE  TypeOK'
<1>1. HostsTypeOK'
  <2>1. CASE UNCHANGED hostVars
    BY <2>1 DEF TypeOK, HostsTypeOK, hostVars, Dirs
  <2> QED
    BY <2>1, EngineStep, HostsTypeStep DEF TypeOK
<1>2. Wasm3TypeOK'
  <2>1. CASE UNCHANGED wasm3Vars
    BY <2>1, EngineStep DEF TypeOK, Wasm3TypeOK, wasm3Vars
  <2> QED
    BY <2>1, EngineStep, Wasm3TypeStep DEF TypeOK
<1> QED
    BY <1>1, <1>2 DEF TypeOK

\* Both engines keep the types of their state: no context ever has a directory
\* that was not opened, and wasm3 links only what the guest imports.
THEOREM LoadingTypeCorrect == Spec => []TypeOK
BY LoadingTypeInit, LoadingTypeStep, PTL DEF Spec

-----------------------------------------------------------------------------
(* The directories of the contexts.                                        *)

\* The host path of the i-th directory of a context.
HostPath(c, i) == Preopens(ctx[c].host)[i][2]

\* A directory that is at a path, or in the cache for it, was created there.
AtOrigin ==
    /\ \A p \in Paths : fs[p] # 0 => origin[fs[p]] = p
    /\ \A p \in DOMAIN OPEN_DIRECTORIES : origin[OPEN_DIRECTORIES[p]] = p

\* A context has the directories of the cache, in the order of its host's
\* parameters; one that has not begun has none.
FromCache(c) ==
    /\ ctx[c].state = "none" => ctx[c].dirs = <<>>
    /\ Len(ctx[c].dirs) =< Len(Preopens(ctx[c].host))
    /\ \A i \in 1..Len(ctx[c].dirs) :
           /\ HostPath(c, i) \in DOMAIN OPEN_DIRECTORIES
           /\ ctx[c].dirs[i] = OPEN_DIRECTORIES[HostPath(c, i)]

Cached == AtOrigin /\ \A c \in Contexts : FromCache(c)

\* No context has a directory at first.
LEMMA CachedInit == ASSUME Init PROVE Cached
<1>1. PICK h \in HostIds :
          ctx = [c \in Contexts |-> [host |-> h, state |-> "none", dirs |-> <<>>]]
    BY HostIdsAssumption DEF Init, HostsInit
<1>2. Len(Preopens(h)) \in Nat
    BY PreopensType
<1>3. ASSUME NEW c \in Contexts PROVE FromCache(c)
  <2>1. ctx[c].host = h /\ ctx[c].dirs = <<>>
    BY <1>1
  <2> QED
    BY <1>2, <2>1 DEF FromCache
<1>4. AtOrigin
    BY DEF Init, HostsInit, AtOrigin
<1> QED
    BY <1>3, <1>4 DEF Cached

\* A context that a step leaves alone keeps the directories of the cache as
\* long as nothing in the cache is overwritten.
LEMMA CachedKept ==
    ASSUME HostsTypeOK, Cached, NEW c \in Contexts,
           \A p \in DOMAIN OPEN_DIRECTORIES :
               /\ p \in DOMAIN OPEN_DIRECTORIES'
               /\ OPEN_DIRECTORIES'[p] = OPEN_DIRECTORIES[p],
           ctx'[c] = ctx[c]
    PROVE  FromCache(c)'
BY DEF Cached, FromCache, HostPath

\* Every step of the Wasmtime engine and of its environment keeps the cache
\* and the contexts in agreement.
LEMMA CachedStep ==
    ASSUME HostsTypeOK, Cached, HostsNext
    PROVE  Cached'
<1>1. ASSUME NEW p \in Paths, CreateDir(p)
      PROVE  Cached'
  <2>1. /\ origin' = Append(origin, p) /\ fs[p] = 0
        /\ fs' = [fs EXCEPT ![p] = Len(origin')]
        /\ UNCHANGED <<OPEN_DIRECTORIES, ctx>>
    BY <1>1 DEF CreateDir
  <2>2. /\ Len(origin) \in Nat /\ Len(origin') = Len(origin) + 1
        /\ origin'[Len(origin')] = p
        /\ \A d \in 1..Len(origin) : origin'[d] = origin[d]
    BY <2>1 DEF HostsTypeOK
  <2>3. \A q \in Paths : fs'[q] # 0 => origin'[fs'[q]] = q
    BY <2>1, <2>2 DEF Cached, AtOrigin, HostsTypeOK
  <2>4. \A q \in DOMAIN OPEN_DIRECTORIES : origin'[OPEN_DIRECTORIES[q]] = q
    BY <2>2 DEF Cached, AtOrigin, HostsTypeOK, Dirs
  <2> QED
    BY <2>1, <2>3, <2>4, CachedKept DEF Cached, AtOrigin
<1>2. ASSUME NEW p \in Paths, RemoveDir(p)
      PROVE  Cached'
  <2>1. /\ fs' = [fs EXCEPT ![p] = 0]
        /\ UNCHANGED <<origin, OPEN_DIRECTORIES, ctx>>
    BY <1>2 DEF RemoveDir
  <2> QED
    BY <2>1, CachedKept DEF Cached, AtOrigin, HostsTypeOK
<1>3. ASSUME NEW h \in HostIds, NewHost(h)
      PROVE  Cached'
    BY <1>3, CachedKept DEF NewHost, Cached, AtOrigin
<1>4. ASSUME NEW h \in HostIds, NEW c \in Contexts, NewState(c, h)
      PROVE  Cached'
  <2>1. /\ UNCHANGED <<OPEN_DIRECTORIES, fs, origin>> /\ ctx[c].state = "none"
        /\ ctx' = [ctx EXCEPT ![c].host = h, ![c].state = "opening"]
    BY <1>4 DEF NewState
  <2>2. ctx[c].dirs = <<>>
    BY <2>1 DEF Cached, FromCache
  <2>3. ctx'[c].host = h /\ ctx'[c].state = "opening" /\ ctx'[c].dirs = <<>>
    BY <2>1, <2>2 DEF HostsTypeOK
  <2>4. FromCache(c)'
    <3>1. Len(Preopens(h)) \in Nat
        BY PreopensType
    <3>2. Len(ctx'[c].dirs) = 0
        BY <2>3
    <3> QED
        BY <2>3, <3>1, <3>2 DEF FromCache
  <2>5. ASSUME NEW d \in Contexts PROVE FromCache(d)'
    BY <2>1, <2>4, CachedKept DEF HostsTypeOK
  <2> QED
    BY <2>1, <2>5 DEF Cached, AtOrigin
<1>5. ASSUME NEW c \in Contexts, get_dir(c)
      PROVE  Cached'
  <2> DEFINE p == NextPreopen(c)[2]
             n == Len(ctx[c].dirs) + 1
  <2>1. UNCHANGED <<fs, origin>> /\ Opening(c)
    BY <1>5 DEF get_dir
  <2>2. p \in Paths /\ n \in 1..Len(Preopens(ctx[c].host))
    BY <2>1, NextPreopenType
  <2>3. /\ p \in DOMAIN OPEN_DIRECTORIES'
        /\ DOMAIN OPEN_DIRECTORIES' = DOMAIN OPEN_DIRECTORIES \cup {p}
        /\ \A q \in DOMAIN OPEN_DIRECTORIES :
               OPEN_DIRECTORIES'[q] = OPEN_DIRECTORIES[q]
        /\ OPEN_DIRECTORIES'[p] \in Dirs
        /\ p \notin DOMAIN OPEN_DIRECTORIES => OPEN_DIRECTORIES'[p] = fs[p]
        /\ ctx' = [ctx EXCEPT ![c].dirs = Append(@, OPEN_DIRECTORIES'[p])]
    BY <1>5, GetDir
  <2>4. p = HostPath(c, n)
    BY DEF NextPreopen, HostPath
  <2> HIDE DEF p, n
  <2>5. /\ ctx'[c].host = ctx[c].host /\ ctx'[c].state = ctx[c].state
        /\ ctx'[c].dirs = Append(ctx[c].dirs, OPEN_DIRECTORIES'[p])
    BY <2>3 DEF HostsTypeOK
  <2>6. ctx[c].dirs \in Seq(Dirs)
    BY DEF HostsTypeOK
  <2>7. /\ Len(ctx'[c].dirs) = n
        /\ ctx'[c].dirs[n] = OPEN_DIRECTORIES'[p]
        /\ \A i \in 1..Len(ctx[c].dirs) : ctx'[c].dirs[i] = ctx[c].dirs[i]
        /\ 1..n = 1..Len(ctx[c].dirs) \cup {n}
    BY <2>5, <2>6 DEF n
  <2>8. FromCache(c)'
    <3>1. ctx'[c].state # "none"
        BY <2>1, <2>5 DEF Opening
    <3>2. Len(ctx'[c].dirs) =< Len(Preopens(ctx'[c].host))
        BY <2>2, <2>5, <2>7
    <3>3. ASSUME NEW i \in 1..Len(ctx'[c].dirs)
          PROVE  /\ HostPath(c, i)' \in DOMAIN OPEN_DIRECTORIES'
                 /\ ctx'[c].dirs[i] = OPEN_DIRECTORIES'[HostPath(c, i)']
      <4>1. HostPath(c, i)' = HostPath(c, i)
        BY <2>5 DEF HostPath
      <4>2. CASE i = n
        BY <2>3, <2>4, <2>7, <4>1, <4>2
      <4>3. CASE i \in 1..Len(ctx[c].dirs)
        BY <2>3, <2>7, <4>1, <4>3 DEF Cached, FromCache
      <4> QED
        BY <2>7, <4>2, <4>3
    <3> QED
        BY <3>1, <3>2, <3>3 DEF FromCache
  <2>9. ASSUME NEW d \in Contexts PROVE FromCache(d)'
    BY <2>3, <2>8, CachedKept DEF HostsTypeOK
  <2>10. origin[OPEN_DIRECTORIES'[p]] = p
    <3>1. CASE p \in DOMAIN OPEN_DIRECTORIES
        BY <2>3, <3>1 DEF Cached, AtOrigin
    <3>2. CASE p \notin DOMAIN OPEN_DIRECTORIES
        BY <2>2, <2>3, <3>2 DEF Cached, AtOrigin, HostsTypeOK, Dirs
    <3> QED
        BY <3>1, <3>2
  <2>11. AtOrigin'
    BY <2>1, <2>3, <2>10 DEF Cached, AtOrigin
  <2> QED
    BY <2>9, <2>11 DEF Cached
<1>6. ASSUME NEW c \in Contexts,
             OpenFails(c) \/ InitCtxFails(c) \/ NewContext(c)
      PROVE  Cached'
  <2>1. /\ UNCHANGED <<OPEN_DIRECTORIES, fs, origin>>
        /\ \E s \in {"no_dir", "no_wasi", "ready", "not_linked"} :
               ctx' = [ctx EXCEPT ![c].state = s]
    BY <1>6 DEF OpenFails, InitCtxFails, NewContext
  <2>2. /\ ctx'[c].host = ctx[c].host /\ ctx'[c].state # "none"
        /\ ctx'[c].dirs = ctx[c].dirs
    BY <2>1 DEF HostsTypeOK
  <2>3. FromCache(c)'
    BY <2>1, <2>2 DEF Cached, FromCache, HostPath
  <2>4. ASSUME NEW d \in Contexts PROVE FromCache(d)'
    BY <2>1, <2>3, CachedKept DEF HostsTypeOK
  <2> QED
    BY <2>1, <2>4 DEF Cached, AtOrigin
<1> QED
    BY <1>1, <1>2, <1>3, <1>4, <1>5, <1>6 DEF HostsNext

\* They agree throughout.
LEMMA CachedInvariant == Spec => [](TypeOK /\ Cached)
<1>1. TypeOK /\ Cached /\ [Next]_vars => Cached'
  <2> SUFFICES ASSUME TypeOK, Cached, [Next]_vars PROVE Cached'
    OBVIOUS
  <2>1. CASE UNCHANGED hostVars
    BY <2>1, CachedKept DEF TypeOK, Cached, AtOrigin, hostVars
  <2> QED
    BY <2>1, EngineStep, CachedStep DEF TypeOK
<1> QED
    BY <1>1, CachedInit, LoadingTypeCorrect, PTL DEF Spec

\* The n-th directory of a context was created at the n-th host path of its own
\* host's parameters: hosts that name their directories differently cannot get
\* each other's through the shared cache.
THEOREM DirectoriesAreRight == Spec => []RightDirectories
<1>1. TypeOK /\ Cached => RightDirectories
    BY DEF Cached, AtOrigin, FromCache, HostPath, RightDirectories
<1> QED
    BY <1>1, CachedInvariant, PTL

\* One host path is one directory for all contexts of the process, whatever
\* happens to the path meanwhile.
THEOREM DirectoriesAreShared == Spec => []SameDirectories
<1>1. TypeOK /\ Cached => SameDirectories
    BY DEF Cached, FromCache, HostPath, SameDirectories
<1> QED
    BY <1>1, CachedInvariant, PTL

-----------------------------------------------------------------------------
(* Linking on the Wasmtime engine.                                         *)

\* No two host functions have the same name.
LEMMA NamesDiffer ==
    ASSUME NEW v \in HostExports, NEW w \in HostExports, AsRef(v) = AsRef(w)
    PROVE  v = w
BY DEF HostExports, AsRef

\* FromStr finds the function of a name.
LEMMA FromStrInverts ==
    ASSUME NEW v \in HostExports
    PROVE  FromStr(AsRef(v)) = v
<1>1. /\ FromStr(AsRef(v)) \in HostExports
      /\ AsRef(FromStr(AsRef(v))) = AsRef(v)
    BY DEF FromStr
<1> QED
    BY <1>1, NamesDiffer

\* Three are finitely many.
LEMMA ThreeAreFinite ==
    ASSUME NEW a, NEW b, NEW c
    PROVE  IsFiniteSet({a, b, c})
<1>1. IsFiniteSet({a})
    BY FS_Singleton
<1>2. IsFiniteSet({a} \cup {b})
    BY <1>1, FS_AddElement
<1>3. IsFiniteSet(({a} \cup {b}) \cup {c})
    BY <1>2, FS_AddElement
<1>4. ({a} \cup {b}) \cup {c} = {a, b, c}
    OBVIOUS
<1> QED
    BY <1>3, <1>4

\* There are finitely many host functions.
LEMMA HostExportsFinite == IsFiniteSet(HostExports)
<1> DEFINE A == {"ConsoleLog", "HostCall", "AsyncHostCall"}
           B == {"GuestRequest", "HostResponse", "HostResponseLen"}
           C == {"GuestResponse", "GuestError", "HostError"}
           D == {"HostErrorLen", "GuestResponseReady", "GuestResponseReady"}
<1>1. HostExports = (A \cup B) \cup (C \cup D)
    BY DEF HostExports
<1>2. IsFiniteSet(A) /\ IsFiniteSet(B) /\ IsFiniteSet(C) /\ IsFiniteSet(D)
    BY ThreeAreFinite
<1> HIDE DEF A, B, C, D
<1>3. IsFiniteSet(A \cup B) /\ IsFiniteSet(C \cup D)
    BY <1>2, FS_Union
<1>4. IsFiniteSet((A \cup B) \cup (C \cup D))
    BY <1>3, FS_Union
<1> QED
    BY <1>1, <1>4

\* So func_new refuses none of them in a linker without host functions.
LEMMA NoClash ==
    ASSUME NEW l, DOMAIN l = {}
    PROVE  ~Clashes(l)
<1> DEFINE f == [v \in HostExports |-> AsRef(v)]
<1>1. f \in Bijection(HostExports, HostNames)
    BY NamesDiffer
    DEF Bijection, Injection, Surjection, IsInjective, HostNames
<1>2. IsFiniteSet(HostExports)
    BY HostExportsFinite
<1>3. Cardinality(HostNames) = Cardinality(HostExports)
    BY <1>1, <1>2, FS_Bijection DEF ExistsBijection
<1>4. Cardinality(HostExports) \in Nat
    BY <1>2, FS_CardinalityType
<1> QED
    BY <1>3, <1>4 DEF Clashes

\* The functions that every new linker offers are those of the tables: a guest
\* can be instantiated if and only if it is compatible with them.
LEMMA LinksCompatible ==
    ASSUME NEW l, DOMAIN l = {}
    PROVE  Instantiates(add_to_linker(l)) <=> Compatible(guest)
<1> DEFINE m == add_to_linker(l)
<1>1. /\ DOMAIN m = HostNames
      /\ \A n \in HostNames : m[n] = WasmtimeType(FromStr(n))
    BY DEF add_to_linker
<1>2. ASSUME NEW n
      PROVE  (n \in DOMAIN m /\ m[n] = guest.imports[n])
             <=> \E v \in HostExports :
                     AsRef(v) = n /\ WasmtimeType(v) = guest.imports[n]
    BY <1>1, FromStrInverts DEF HostNames
<1> HIDE DEF m
<1> QED
    BY <1>2 DEF Instantiates, Compatible, m

\* The provider's own linker never gets a host function: a context works on a
\* clone of it.
Untouched == \A h \in HostIds : DOMAIN linker[h] = {}

Linked == Untouched /\ LinkedByGuestAlone

\* Every step of the engine keeps it so, and decides by the guest alone.
LEMMA LinkedStep ==
    ASSUME HostsTypeOK, Linked, HostsNext, guest' = guest
    PROVE  Linked'
<1>1. linker' = linker
    BY DEF HostsNext, CreateDir, RemoveDir, NewHost, NewState, get_dir,
        OpenFails, InitCtxFails, NewContext
<1>2. ASSUME NEW c \in Contexts,
             ctx'[c].state \in {ctx[c].state, "opening", "no_dir", "no_wasi"}
      PROVE  /\ ctx'[c].state = "ready" => Compatible(guest)
             /\ ctx'[c].state = "not_linked" => ~Compatible(guest)
    BY <1>2 DEF Linked, LinkedByGuestAlone
<1>3. ASSUME NEW c \in Contexts, NewContext(c)
      PROVE  LinkedByGuestAlone'
  <2>1. DOMAIN linker[ctx[c].host] = {}
    BY DEF Linked, Untouched, HostsTypeOK
  <2>2. ctx' = [ctx EXCEPT ![c].state =
                   IF Compatible(guest) THEN "ready" ELSE "not_linked"]
    BY <1>3, <2>1, NoClash, LinksCompatible, Zenon DEF NewContext
  <2>3. /\ ctx'[c].state = IF Compatible(guest) THEN "ready" ELSE "not_linked"
        /\ \A d \in Contexts : d # c => ctx'[d] = ctx[d]
    BY <2>2 DEF HostsTypeOK
  <2>4. Compatible(guest)' <=> Compatible(guest)
    BY DEF Compatible
  <2> QED
    BY <1>2, <2>3, <2>4 DEF LinkedByGuestAlone
<1>4. ASSUME \A c \in Contexts : ~NewContext(c)
      PROVE  LinkedByGuestAlone'
  <2>1. ASSUME NEW c \in Contexts
        PROVE  ctx'[c].state \in {ctx[c].state, "opening", "no_dir", "no_wasi"}
    <3>1. CASE ctx' = ctx
        BY <3>1
    <3>2. ASSUME NEW d \in Contexts, NEW h \in HostIds, NewState(d, h)
          PROVE  ctx'[c].state \in {ctx[c].state, "opening"}
        BY <3>2 DEF NewState, HostsTypeOK
    <3>3. ASSUME NEW d \in Contexts, get_dir(d)
          PROVE  ctx'[c].state = ctx[c].state
      <4>1. PICK e : ctx' = [ctx EXCEPT ![d].dirs = e]
        BY <3>3, GetDir
      <4> QED
        BY <4>1 DEF HostsTypeOK
    <3>4. ASSUME NEW d \in Contexts, OpenFails(d) \/ InitCtxFails(d)
          PROVE  ctx'[c].state \in {ctx[c].state, "no_dir", "no_wasi"}
        BY <3>4 DEF OpenFails, InitCtxFails, HostsTypeOK
    <3> QED
        BY <1>4, <3>1, <3>2, <3>3, <3>4
        DEF HostsNext, CreateDir, RemoveDir, NewHost
  <2>2. Compatible(guest)' <=> Compatible(guest)
    BY DEF Compatible
  <2> QED
    BY <1>2, <2>1, <2>2 DEF LinkedByGuestAlone
<1> QED
    BY <1>1, <1>3, <1>4 DEF Linked, Untouched

\* A compatible guest is linked in every context of every host, an incompatible
\* one in none, however many contexts there have been before.
THEOREM LinkingIsRepeatable == Spec => []LinkedByGuestAlone
<1>1. Init => Linked
    BY HostIdsAssumption DEF Init, HostsInit, Linked, Untouched, LinkedByGuestAlone
<1>2. TypeOK /\ Linked /\ [Next]_vars => Linked'
  <2> SUFFICES ASSUME TypeOK, Linked, [Next]_vars PROVE Linked'
    OBVIOUS
  <2>1. CASE UNCHANGED hostVars
    BY <2>1, EngineStep
    DEF Linked, Untouched, LinkedByGuestAlone, Compatible, hostVars
  <2> QED
    BY <2>1, EngineStep, LinkedStep DEF TypeOK
<1>3. Linked => LinkedByGuestAlone
    BY DEF Linked
<1> QED
    BY <1>1, <1>2, <1>3, LoadingTypeCorrect, PTL DEF Spec

-----------------------------------------------------------------------------
(* The init of the wasm3 engine.                                           *)

\* No two closures have the same name.
LEMMA ClosuresDiffer ==
    ASSUME NEW i \in 1..Len(Closures), NEW j \in 1..Len(Closures),
           Closures[i][1] = Closures[j][1]
    PROVE  i = j
<1>1. i \in 1..10 /\ j \in 1..10
    BY Lengths
<1> QED
    BY <1>1 DEF Closures

\* The first n imports have been tried: those that link are linked, and so are
\* all that init may not go on without; the others are still to come.
Tried(n) ==
    /\ \A i \in 1..Len(Closures) :
           Closures[i][1] \in linked <=> i =< n /\ Links(Closures[i])
    /\ \A i \in 1..n : Closures[i][1] \in Required => Closures[i][1] \in linked

\* What init has established by the time it is at each place.
Linking ==
    /\ w3pc = "new" => linked = {} /\ step = 0
    /\ w3pc = "link" => Tried(step)
    /\ w3pc \in {"start", "ready"} =>
           Tried(Len(Closures)) /\ "__guest_call" \in guest.exports

\* Every step of the engine keeps it.
LEMMA LinkingStep ==
    ASSUME Wasm3TypeOK, Linking, Wasm3Next, guest' = guest
    PROVE  Linking'
<1>0. ASSUME NEW n, linked' = linked, Tried(n) PROVE Tried(n)'
    BY <1>0 DEF Tried, Links
<1>1. CASE (\E ok \in BOOLEAN : Load(ok)) \/ EnvironmentFails
  <2>1. w3pc = "new" /\ w3pc' \in {"link", "failed", "panicked"}
        /\ step' = 0 /\ linked' = {} /\ linked = {}
    BY <1>1 DEF Load, EnvironmentFails, Linking
  <2>2. Tried(0)
    BY <2>1, Lengths DEF Tried
  <2> QED
    BY <1>0, <2>1, <2>2 DEF Linking
<1>2. CASE link_closure
  <2>1. /\ w3pc = "link" /\ step \in 0..9 /\ step' = step + 1
        /\ Tried(step)
    BY <1>2, Lengths DEF link_closure, Linking, Wasm3TypeOK
  <2>2. PICK k \in 1..10 : k = step + 1
    BY <2>1
  <2>3. CASE Links(Closures[k])
    <3>1. linked' = linked \cup {Closures[k][1]} /\ w3pc' = w3pc
        BY <1>2, <2>2, <2>3 DEF link_closure
    <3>2. Tried(k)'
        BY <2>1, <2>2, <2>3, <3>1, Lengths, ClosuresDiffer DEF Tried, Links
    <3> QED
        BY <2>1, <2>2, <3>1, <3>2 DEF Linking
  <2>4. CASE ~Links(Closures[k])
    <3>1. /\ linked' = linked
          /\ w3pc' = IF Closures[k][1] \in Required THEN "failed" ELSE w3pc
        BY <1>2, <2>2, <2>4 DEF link_closure
    <3>2. CASE Closures[k][1] \in Required
        BY <3>1, <3>2 DEF Linking
    <3>3. CASE Closures[k][1] \notin Required
      <4>1. Tried(k)'
        BY <2>1, <2>2, <2>4, <3>1, <3>3, Lengths DEF Tried, Links
      <4> QED
        BY <2>1, <2>2, <3>1, <3>3, <4>1 DEF Linking
    <3> QED
        BY <3>2, <3>3
  <2> QED
    BY <2>3, <2>4
<1>3. CASE FindGuestCall
  <2>1. /\ w3pc = "link" /\ step = Len(Closures) /\ linked' = linked
        /\ w3pc' \in {"start", "failed"}
        /\ w3pc' = "start" => "__guest_call" \in guest.exports
    BY <1>3 DEF FindGuestCall
  <2>2. Tried(Len(Closures))'
    BY <1>0, <2>1 DEF Linking
  <2> QED
    BY <2>1, <2>2 DEF Linking
<1>4. CASE (\E ok \in BOOLEAN : Starter(ok)) \/ InitDone
  <2>1. w3pc = "start" /\ w3pc' \in {"start", "failed", "ready"} /\ linked' = linked
    BY <1>4 DEF Starter, InitDone
  <2>2. Tried(Len(Closures))'
    BY <1>0, <2>1 DEF Linking
  <2> QED
    BY <2>1, <2>2 DEF Linking
<1>5. ASSUME NEW used, Wasm3Call(used)
      PROVE  Linking'
  <2>1. UNCHANGED <<w3pc, step, linked>>
    BY <1>5 DEF Wasm3Call
  <2>2. Tried(step)' <=> Tried(step)
    BY <2>1 DEF Tried, Links
  <2>3. Tried(Len(Closures))' <=> Tried(Len(Closures))
    BY <2>1 DEF Tried, Links
  <2> QED
    BY <2>1, <2>2, <2>3 DEF Linking
<1> QED
    BY <1>1, <1>2, <1>3, <1>4, <1>5 DEF Wasm3Next

\* It holds before init, and throughout.
LEMMA LinkingInvariant == Spec => [](TypeOK /\ Linking)
<1>1. Init => Linking
    BY DEF Init, Wasm3Init, Linking
<1>2. TypeOK /\ Linking /\ [Next]_vars => Linking'
  <2> SUFFICES ASSUME TypeOK, Linking, [Next]_vars PROVE Linking'
    OBVIOUS
  <2>1. CASE UNCHANGED wasm3Vars
    <3>1. UNCHANGED <<w3pc, step, linked, guest>>
        BY <2>1, EngineStep DEF wasm3Vars
    <3>2. Tried(step)' <=> Tried(step)
        BY <3>1 DEF Tried, Links
    <3>3. Tried(Len(Closures))' <=> Tried(Len(Closures))
        BY <3>1 DEF Tried, Links
    <3> QED
        BY <3>1, <3>2, <3>3 DEF Linking
  <2> QED
    BY <2>1, EngineStep, LinkingStep DEF TypeOK
<1> QED
    BY <1>1, <1>2, LoadingTypeCorrect, PTL DEF Spec

\* A provider that is ready has linked what guest and engine agree on, all that
\* a guest needs to take a request and to answer it included: init has passed
\* over no failure that matters.
THEOREM Wasm3IsReady == Spec => []Wasm3Ready
<1>1. ASSUME Linking, w3pc = "ready"
      PROVE  {"__guest_request", "__guest_response", "__guest_error"} \subseteq linked
  <2>1. Tried(Len(Closures))
    BY <1>1 DEF Linking
  <2>2. /\ Closures[2][1] = "__guest_request"
        /\ Closures[6][1] = "__guest_response"
        /\ Closures[7][1] = "__guest_error"
    BY DEF Closures
  <2> QED
    BY <2>1, <2>2, Lengths DEF Tried, Required
<1>2. ASSUME Linking, w3pc = "ready"
      PROVE  \A i \in 1..Len(Closures) : Closures[i][1] \in linked <=> Links(Closures[i])
    BY <1>2, Lengths DEF Linking, Tried
<1>3. Linking => Wasm3Ready
    BY <1>1, <1>2 DEF Linking, Wasm3Ready
<1> QED
    BY <1>3, LinkingInvariant, PTL

\* A call traps on an import only if the guest has declared one that the engine
\* does not have.
THEOREM Wasm3TrapsAreTheGuests == Spec => []TrapsOnlyOnForeignImports
<1>1. Init => TrapsOnlyOnForeignImports
    BY DEF Init, Wasm3Init, TrapsOnlyOnForeignImports
<1>2. ASSUME Linking, NEW used \in SUBSET DOMAIN guest.imports, Wasm3Call(used),
             w3result' = "trap"
      PROVE  \E n \in DOMAIN guest.imports : \A i \in 1..Len(Closures) :
                 Closures[i] # <<n, guest.imports[n]>>
  <2>1. w3pc = "ready" /\ ~(used \subseteq linked)
    BY <1>2 DEF Wasm3Call
  <2>2. PICK n \in used : n \notin linked
    BY <2>1
  <2>3. ASSUME NEW i \in 1..Len(Closures), Closures[i] = <<n, guest.imports[n]>>
        PROVE  FALSE
    <3>1. Closures[i][1] = n /\ Closures[i][2] = guest.imports[n]
        BY <2>3
    <3>2. Links(Closures[i])
        BY <2>2, <3>1 DEF Links
    <3>3. i =< Len(Closures)
        BY Lengths
    <3> QED
        BY <1>2, <2>1, <2>2, <3>1, <3>2, <3>3 DEF Linking, Tried
  <2> QED
    BY <2>2, <2>3
<1>3. TypeOK /\ Linking /\ TrapsOnlyOnForeignImports /\ [Next]_vars
          => TrapsOnlyOnForeignImports'
  <2> SUFFICES ASSUME Linking, TrapsOnlyOnForeignImports, [Next]_vars
               PROVE  TrapsOnlyOnForeignImports'
    OBVIOUS
  <2>1. guest' = guest
    BY EngineStep
  <2>2. CASE w3result' = w3result
    BY <2>1, <2>2 DEF TrapsOnlyOnForeignImports
  <2>3. w3result' # w3result =>
            \E used \in SUBSET DOMAIN guest.imports : Wasm3Call(used)
    BY EngineStep DEF Wasm3Next, EnvironmentFails, Load, Starter,
        link_closure, FindGuestCall, InitDone, wasm3Vars
  <2> QED
    BY <1>2, <2>1, <2>2, <2>3 DEF TrapsOnlyOnForeignImports
<1> QED
    BY <1>1, <1>3, LinkingInvariant, PTL DEF Spec

=============================================================================
