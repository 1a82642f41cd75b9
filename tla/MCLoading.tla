----------------------------- MODULE MCLoading ------------------------------
(* Loading for TLC: the guests, and hosts that name their directories alike. *)
EXTENDS Loading, TLC

ContextSymmetry == Permutations(Contexts)

\* A guest that calls the host, and one that does not: the linker of a guest
\* drops the imports that are not used.
AllImports == HostExports
NoHostCalls == HostExports \ {"HostCall", "AsyncHostCall"}

LibraryExports == GuestExports \ {"_start"}

Wasm3Imports == {Closures[i][1] : i \in 1..Len(Closures)}

\* A guest of the Wasmtime provider: the imports V with the types of one side.
Guest(V, Type(_), E) ==
    [imports |-> [n \in {AsRef(v) : v \in V} |-> Type(FromStr(n))],
     exports |-> E]

\* A guest of the wasm3 provider: some of its imports, each with its type or,
\* those in odd, with the type of another interface.
Wasm3Guest(names, odd, exports) ==
    [imports |-> [n \in names |->
        IF n \in odd THEN <<9, 9>>
        ELSE (CHOOSE i \in {Closures[j] : j \in 1..Len(Closures)} : i[1] = n)[2]],
     exports |-> exports]

\* Of the guests of wasm3 any import, or none, is missing and any one, or none,
\* has another type.
MCGuests ==
    [wasmtime |->
        {Guest(V, WasmtimeType, GuestExports \ E) :
            V \in {AllImports, NoHostCalls}, E \in {{}, {"__host_call_response_ready"}}}
        \cup {Guest(V, LibraryType, LibraryExports) : V \in {AllImports, NoHostCalls}},
     wasm3 |->
        {Wasm3Guest(Wasm3Imports \ {m}, {o}, E) :
            m \in Wasm3Imports \cup {"-"}, o \in Wasm3Imports \cup {"-"},
            E \in {{"__guest_call"}, {"__guest_call", "_start"}, {"wapc_init"}}}]

\* Guests of the library only.
LibraryGuests ==
    [wasmtime |-> {Guest(V, LibraryType, LibraryExports) : V \in {AllImports, NoHostCalls}},
     wasm3 |-> {}]

\* h1 shares the path a with h2, which calls it b and maps b to a.
MCPreopened == [h \in HostIds |-> IF h = "h1" THEN <<"a", "b">> ELSE <<>>]
MCMapped == [h \in HostIds |-> IF h = "h1" THEN <<>> ELSE << <<"b", "a">> >>]
=============================================================================
