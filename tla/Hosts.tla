-------------------------------- MODULE Hosts --------------------------------
(***************************************************************************)
(* Hosts and the contexts of their calls on the Wasmtime engine, up to the *)
(* point where WapcCall takes over: WapcHost::new, ModuleState::new and    *)
(* WasmtimeEngineProvider::new_context with the set-up of WASI and the     *)
(* linking of the guest.                                                   *)
(*                                                                         *)
(* A WapcHost is used by one thread, so its contexts are created one after *)
(* the other; those of different hosts (the workers of a HostPool) are     *)
(* created concurrently and share OPEN_DIRECTORIES, a process-wide cache   *)
(* behind a mutex that get_dir holds from the lookup to the insertion.     *)
(* The file system, the process's environment, changes meanwhile.          *)
(***************************************************************************)
EXTENDS WapcFunctions, FiniteSets

CONSTANTS
    HostIds,        \* the WapcHosts of the process
    Contexts,       \* the calls made on them
    Paths,          \* the paths of the file system
    preopened_dirs, \* WasiParams of each host: paths ...
    map_dirs,       \* ... and pairs of a guest's path and a host's path
    MaxDirs         \* bound on the directories that are ever created

ASSUME HostIdsAssumption == HostIds # {}
ASSUME WasiParamsAssumption ==
    /\ preopened_dirs \in [HostIds -> Seq(Paths)]
    /\ map_dirs \in [HostIds -> Seq(Paths \X Paths)]
ASSUME MaxDirsAssumption == MaxDirs \in Nat

VARIABLES
    linker,             \* the Linker of each host's provider: names and types
    built,              \* the hosts for which WapcHost::new has returned
    OPEN_DIRECTORIES,   \* the directories in the cache, by path
    fs,                 \* the directory at each path, 0 if there is none
    origin,             \* the path at which each directory was created
    ctx                 \* the contexts: host, state, preopened directories

hostVars == <<linker, built, OPEN_DIRECTORIES, fs, origin, ctx>>

Dirs == 1..Len(origin)

ContextStates == {"none", "opening", "no_dir", "no_wasi", "not_linked", "ready"}

HostsTypeOK ==
    /\ built \subseteq HostIds
    /\ DOMAIN OPEN_DIRECTORIES \subseteq Paths
    /\ \A p \in DOMAIN OPEN_DIRECTORIES : OPEN_DIRECTORIES[p] \in Dirs
    /\ fs \in [Paths -> 0..Len(origin)]
    /\ origin \in Seq(Paths)
    /\ ctx \in [Contexts ->
                   [host : HostIds, state : ContextStates, dirs : Seq(Dirs)]]

\* new_with_engine: a linker with the WASI functions only.
HostsInit ==
    /\ linker = [h \in HostIds |-> [n \in {} |-> <<0, 0>>]]
    /\ built = {}
    /\ OPEN_DIRECTORIES = [p \in {} |-> 0]
    /\ fs = [p \in Paths |-> 0]
    /\ origin = <<>>
    /\ LET h == CHOOSE h \in HostIds : TRUE
       IN  ctx = [c \in Contexts |-> [host |-> h, state |-> "none", dirs |-> <<>>]]

-----------------------------------------------------------------------------
(* The environment.                                                        *)

CreateDir(p) ==
    /\ fs[p] = 0
    /\ Len(origin) < MaxDirs
    /\ origin' = Append(origin, p)
    /\ fs' = [fs EXCEPT ![p] = Len(origin')]
    /\ UNCHANGED <<linker, built, OPEN_DIRECTORIES, ctx>>

RemoveDir(p) ==
    /\ fs[p] # 0
    /\ fs' = [fs EXCEPT ![p] = 0]
    /\ UNCHANGED <<linker, built, OPEN_DIRECTORIES, origin, ctx>>

-----------------------------------------------------------------------------
(* WapcHost.                                                               *)

\* WapcHost::new; the init() of the Wasmtime provider has nothing to do.
NewHost(h) ==
    /\ h \notin built
    /\ built' = built \cup {h}
    /\ UNCHANGED <<linker, OPEN_DIRECTORIES, fs, origin, ctx>>

\* WapcHost::call or ::call_async: a new ModuleState, and new_context begins.
NewState(c, h) ==
    /\ h \in built
    /\ ctx[c].state = "none"
    /\ \A d \in Contexts : ctx[d].host = h => ctx[d].state # "opening"
    /\ ctx' = [ctx EXCEPT ![c].host = h, ![c].state = "opening"]
    /\ UNCHANGED <<linker, built, OPEN_DIRECTORIES, fs, origin>>

-----------------------------------------------------------------------------
(* new_store: the preopened directories.                                   *)

\* What compute_preopen_dirs goes through: pairs of guest's and host's paths.
Preopens(h) ==
    [i \in 1..Len(preopened_dirs[h]) |-> <<preopened_dirs[h][i], preopened_dirs[h][i]>>]
        \o map_dirs[h]

Opening(c) ==
    /\ ctx[c].state = "opening"
    /\ Len(ctx[c].dirs) < Len(Preopens(ctx[c].host))

\* The pair whose directory comes next.
NextPreopen(c) == Preopens(ctx[c].host)[Len(ctx[c].dirs) + 1]

\* Looking the directory up by the guest's path.
CacheKeyGuest(pair) == pair[1]

CacheKey(pair) == pair[2]

\* Opening the directory anew for every context.
InsertedNever(t, p, d) == t

Inserted(t, p, d) == [q \in DOMAIN t \cup {p} |-> IF q = p THEN d ELSE t[q]]

\* Taking a failed open_ambient_dir for a directory.
OpensAnything(d) == TRUE

Opens(d) == d # 0

\* get_dir: a directory of the cache, or one that is opened and added to it.
get_dir(c) ==
    /\ Opening(c)
    /\ LET key == CacheKey(NextPreopen(c))
           new == fs[NextPreopen(c)[2]]
       IN  IF key \in DOMAIN OPEN_DIRECTORIES
           THEN /\ ctx' = [ctx EXCEPT ![c].dirs = Append(@, OPEN_DIRECTORIES[key])]
                /\ UNCHANGED OPEN_DIRECTORIES
           ELSE /\ Opens(new)
                /\ ctx' = [ctx EXCEPT ![c].dirs = Append(@, new)]
                /\ OPEN_DIRECTORIES' = Inserted(OPEN_DIRECTORIES, key, new)
    /\ UNCHANGED <<linker, built, fs, origin>>

\* open_ambient_dir fails, which it may for a directory that exists, or the
\* try_clone of the handle that is in the cache or goes into it: new_context
\* fails with Error::PreopenedDirs.  The cache keeps what was opened before.
OpenFails(c) ==
    /\ Opening(c)
    /\ ctx' = [ctx EXCEPT ![c].state = "no_dir"]
    /\ UNCHANGED <<linker, built, OPEN_DIRECTORIES, fs, origin>>

\* init_ctx fails on an argument, an environment variable or the try_clone of a
\* directory: Error::InitializationFailed, with all directories in the cache.
InitCtxFails(c) ==
    /\ ctx[c].state = "opening"
    /\ ~Opening(c)
    /\ ctx' = [ctx EXCEPT ![c].state = "no_wasi"]
    /\ UNCHANGED <<linker, built, OPEN_DIRECTORIES, fs, origin>>

-----------------------------------------------------------------------------
(* WasmtimeCallContext::new.                                               *)

\* func_new refuses a name that is already defined.
Clashes(l) == \/ DOMAIN l \cap HostNames # {}
              \/ Cardinality(HostNames) < Cardinality(HostExports)

add_to_linker(l) ==
    [n \in DOMAIN l \cup HostNames |->
        IF n \in DOMAIN l THEN l[n] ELSE WasmtimeType(FromStr(n))]

\* instantiate: every import is defined, with the type the guest declares;
\* get_typed_func: the guest exports the function it is called back with.
Instantiates(l) ==
    /\ \A n \in DOMAIN guest.imports : n \in DOMAIN l /\ l[n] = guest.imports[n]
    /\ "__host_call_response_ready" \in guest.exports

\* Defining the functions in the provider's own linker.
ProviderLinkerShared(h) == [linker EXCEPT ![h] = add_to_linker(@)]

\* new_context hands out a clone of the provider's linker.
ProviderLinker(h) == linker

NewContext(c) ==
    /\ ctx[c].state = "opening"
    /\ ~Opening(c)
    /\ LET h  == ctx[c].host
           ok == ~Clashes(linker[h]) /\ Instantiates(add_to_linker(linker[h]))
       IN  /\ ctx' = [ctx EXCEPT ![c].state = IF ok THEN "ready" ELSE "not_linked"]
           /\ linker' = ProviderLinker(h)
    /\ UNCHANGED <<built, OPEN_DIRECTORIES, fs, origin>>

-----------------------------------------------------------------------------
HostsNext ==
    \/ \E p \in Paths : CreateDir(p) \/ RemoveDir(p)
    \/ \E h \in HostIds : NewHost(h) \/ \E c \in Contexts : NewState(c, h)
    \/ \E c \in Contexts :
           get_dir(c) \/ OpenFails(c) \/ InitCtxFails(c) \/ NewContext(c)

-----------------------------------------------------------------------------
\* A context's n-th directory was created at the n-th host path of its own
\* host's WasiParams, whatever the other hosts call that path, whoever opened
\* it first and whatever has happened to the path since (wasi.rs, get_dir).
RightDirectories ==
    \A c \in Contexts : \A i \in 1..Len(ctx[c].dirs) :
        origin[ctx[c].dirs[i]] = Preopens(ctx[c].host)[i][2]

\* One host path is one directory for all contexts of the process, even if the
\* directory is removed and created again between two calls or while another
\* host is opening it.
SameDirectories ==
    \A c, d \in Contexts :
        \A i \in 1..Len(ctx[c].dirs), j \in 1..Len(ctx[d].dirs) :
            Preopens(ctx[c].host)[i][2] = Preopens(ctx[d].host)[j][2] =>
                ctx[c].dirs[i] = ctx[d].dirs[j]

\* What the host offers to a guest, by the names and types of its tables.
Compatible(g) ==
    /\ \A n \in DOMAIN g.imports : \E v \in HostExports :
           AsRef(v) = n /\ WasmtimeType(v) = g.imports[n]
    /\ "__host_call_response_ready" \in g.exports

\* Whether a context that has its WASI is linked depends on the guest alone,
\* never on the contexts that the host has created before: every compatible
\* guest is linked every time, an incompatible one never runs.
LinkedByGuestAlone ==
    \A c \in Contexts :
        /\ ctx[c].state = "ready" => Compatible(guest)
        /\ ctx[c].state = "not_linked" => ~Compatible(guest)

\* crates/wapc-guest/README.md: the crate serves to "compile WebAssembly
\* modules that you can load in waPC hosts".
LibraryGuestLoads ==
    \A c \in Contexts :
        (\A n \in DOMAIN guest.imports : guest.imports[n] = LibraryType(FromStr(n)))
        /\ GuestExports \ {"_start"} \subseteq guest.exports
        => ctx[c].state # "not_linked"
=============================================================================
