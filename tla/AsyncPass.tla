----------------------------- MODULE AsyncPass -----------------------------
(***************************************************************************)
(* The compiler pass (FilAsync.cpp) on the units of a program, one after   *)
(* the other with one pass object, and the program's startup check of what *)
(* was emitted (filc_async_validate_table).                                *)
(*                                                                         *)
(* A unit is what the pass reads of an LLVM module: functions, numbered in *)
(* the order of their names, the annotation table, the direct calls, and   *)
(* the string globals. Option texts are the records of Descriptors.        *)
(***************************************************************************)
EXTENDS Descriptors, SequencesExt

CONSTANTS
    Families,   \* the programs to compile, in families
    Hash        \* FNV-1a folded to 24 bits, of <<parameter, namespace>>

ASSUME HashType == \A x \in DOMAIN Hash : Hash[x] \in Nat

\* A type is "ptr", "constptr", "int" (up to 64 bits) or "other".
IsPointer(type) == type \in {"ptr", "constptr"}
Linkage == {"declared", "copy", "local", "external"}

Parameter == [name : STRING, type : {"ptr", "constptr", "int", "other"}]
Option == [key : STRING, param : STRING, ns : STRING]

(* What clang makes of a unit. Parameters with a name have different ones; *)
(* an entry of ours is for a function, or for something else (0); what the *)
(* options say is in strings of clang's.                                   *)
UnitFits(u) ==
    /\ DOMAIN u.func \subseteq Nat \ {0}
    /\ \A f \in DOMAIN u.func :
          /\ u.func[f].param \in Seq(Parameter)
          /\ \A i, j \in DOMAIN u.func[f].param :
                u.func[f].param[i].name = u.func[f].param[j].name => i = j \/ u.func[f].param[i].name = ""
          /\ u.func[f].ret \in {"void", "ptr", "word"}
          /\ u.func[f].linkage \in Linkage
    /\ u.calls \subseteq [to : DOMAIN u.func, form : {"plain", "invoke", "mismatch", "indirect"},
                          via : {"body"}]
    /\ u.annos \in Seq([mine : BOOLEAN, target : Nat, opts : Seq(Option)])
    /\ \A i \in DOMAIN u.annos :
          /\ u.annos[i].mine => u.annos[i].target \in DOMAIN u.func \cup {0}
          /\ ~u.annos[i].mine => \A o \in ToSet(u.annos[i].opts) : [text |-> o, by |-> "clang"] \in u.strs
          /\ \A o \in ToSet(u.annos[i].opts) :
                o.key \in {"r_dep", "w_dep"} /\ o.ns \notin {NoNs, ""} => <<o.param, o.ns>> \in DOMAIN Hash

ASSUME ProgramsFit ==
    \A family \in Families : \A p \in family :
        /\ p.units # << >>
        /\ p.units \in Seq(ToSet(p.units))
        /\ \A i \in DOMAIN p.units : UnitFits(p.units[i])

VARIABLES
    program,    \* its units, and the validator it installs, if any
    unit,       \* the unit the pass is at
    phase,
    annotated,  \* Annotated: the options of each enrolled function
    described,  \* the functions of the unit that have a descriptor
    image       \* what each unit has become

passVars == <<program, unit, phase, annotated, described, image>>

(* A call is written to function to; form says whether it is a plain call  *)
(* through the function's own prototype, and via where it goes.            *)
Source(u) == program.units[u]
Func(f) == Source(unit).func[f]
Enrolled(u) == {e.target : e \in {x \in ToSet(Source(u).annos) : x.mine}}

\* g with x for f.
With(g, f, x) == [y \in DOMAIN g \cup {f} |-> IF y = f THEN x ELSE g[y]]

\* What s has at the positions in S, in order.
Picks(s, S) ==
    LET P[n \in 0 .. Len(s)] ==
            IF n = 0 THEN << >> ELSE IF n \in S THEN Append(P[n - 1], s[n]) ELSE P[n - 1]
    IN P
Picked(s, S) == Picks(s, S)[Len(s)]

-----------------------------------------------------------------------------
(* Reading the options *)

\* Where llvm::find finds the name; 0 if it does not.
ParamIndex(fn, name) ==
    IF name = "" THEN 0 ELSE SelectInSeq(fn.param, LAMBDA p : p.name = name)

\* A hash of 0 becomes 1.
HashNamespace(param, ns) == IF Hash[<<param, ns>>] = 0 THEN 1 ELSE Hash[<<param, ns>>]

BufferKind == [bin |-> "in", bout |-> "out", buf |-> "pending"]
DepMode == [r_dep |-> DepRead, w_dep |-> DepWrite]

\* What no option names takes its kind from its type.
Defaults(fn) ==
    [kind |-> [i \in DOMAIN fn.param |->
                  CASE fn.param[i].type = "constptr" -> "in"
                    [] fn.param[i].type = "ptr" -> "pending"
                    [] OTHER -> "ignored"],
     dep |-> [i \in DOMAIN fn.param |-> 0],
     noped |-> 0, ok |-> TRUE]

\* Mutant: a second dependency on a parameter replaces the first.
ParseOption_last(fn, acc, o) ==
    LET i == ParamIndex(fn, o.param)
        type == fn.param[i].type
    IN CASE o.key \in DOMAIN DepMode /\ i # 0 /\ o.ns \notin {NoNs, ""} /\ type # "other"
              -> [acc EXCEPT !.dep[i] = DepWord(DepMode[o.key], IsPointer(type),
                                                HashNamespace(o.param, o.ns))]
         [] o.key \in DOMAIN BufferKind /\ i # 0 /\ IsPointer(type)
              -> [acc EXCEPT !.kind[i] = BufferKind[o.key], !.noped = @ + 1]
         [] o.key \notin DOMAIN DepMode \cup DOMAIN BufferKind
                         \cup {"fd", "read_dep", "write_dep"} -> acc
         [] OTHER -> [acc EXCEPT !.ok = FALSE]

(* One turn of parseKinds' loop: a dependency gets its word, which must    *)
(* not differ from one it has; a buffer option replaces the kind; an       *)
(* option for the runtime is skipped; anything else is fatal.              *)
ParseOption(fn, acc, o) ==
    LET i == ParamIndex(fn, o.param)
        type == fn.param[i].type
        word == DepWord(DepMode[o.key], IsPointer(type), HashNamespace(o.param, o.ns))
    IN CASE o.key \in DOMAIN DepMode /\ i # 0 /\ o.ns \notin {NoNs, ""} /\ type # "other"
              -> [acc EXCEPT !.ok = @ /\ acc.dep[i] \in {0, word}, !.dep[i] = word]
         [] o.key \in DOMAIN BufferKind /\ i # 0 /\ IsPointer(type)
              -> [acc EXCEPT !.kind[i] = BufferKind[o.key], !.noped = @ + 1]
         [] o.key \notin DOMAIN DepMode \cup DOMAIN BufferKind
                         \cup {"fd", "read_dep", "write_dep"} -> acc
         [] OTHER -> [acc EXCEPT !.ok = FALSE]

Parsing(fn, opts) ==
    LET P[n \in 0 .. Len(opts)] == IF n = 0 THEN Defaults(fn) ELSE ParseOption(fn, P[n - 1], opts[n])
    IN P
ParseKinds(fn, opts) == Parsing(fn, opts)[Len(opts)]

\* parseRuntime: one name, a C identifier, however often it is given.
RuntimesOf(opts) == {o.param : o \in {x \in ToSet(opts) : x.key = "runtime"}}

\* Mutant: a name may start with a digit.
Identifier_digit(name) == name # ""

Identifier(name) == name \notin {"", "1bad"}
RuntimeOk(opts) == \E r \in RuntimesOf(opts) : Identifier(r) /\ RuntimesOf(opts) = {r}

(* emitMeta, with the result kind left out: nothing reads it. *)
Meta(fn, opts) ==
    LET p == ParseKinds(fn, opts)
    IN [nargs |-> Len(fn.param), noped |-> p.noped, opts |-> opts,
        runtime |-> CHOOSE r \in RuntimesOf(opts) : TRUE, kind |-> p.kind, dep |-> p.dep]

-----------------------------------------------------------------------------
(* The stub: what it does besides staging, in its order. *)
Arguments(m) == [i \in 1 .. m.nargs |-> i]
Lockers(m) == Picked(Arguments(m), {i \in 1 .. m.nargs : ModeOf(m.dep[i]) # 0})
Outputs(m) == Picked(Arguments(m), {i \in 1 .. m.nargs : IsOutputKind(m.kind[i])})
Inputs(m) == Picked(Arguments(m), {i \in 1 .. m.nargs : m.kind[i] = "in"})

StubOps(m) ==
    LET Ops(op, args) == [j \in DOMAIN args |-> [op |-> op, arg |-> args[j]]]
    IN Ops("lock", Lockers(m)) \o Ops("mark", Outputs(m)) \o Ops("input", Inputs(m))
         \o <<[op |-> "submit", arg |-> 0]>>

-----------------------------------------------------------------------------
(* The passes over a unit *)

\* What a unit is before the pass touches it.
Untouched(u) ==
    [symbol |-> [f \in DOMAIN u.func |-> [fn |-> f, impl |-> FALSE]],
     alias |-> {}, meta |-> << >>, opts |-> << >>, table |-> << >>,
     calls |-> u.calls, annos |-> u.annos, strs |-> u.strs]

\* run() starts with empty maps, on a pass object that has run before.
NextUnit ==
    /\ IF unit < Len(program.units)
       THEN /\ unit' = unit + 1
            /\ phase' = "enroll"
       ELSE /\ phase' = "startup"
            /\ UNCHANGED unit
    /\ annotated' = << >>
    /\ described' = {}

\* The last of our entries for f.
LastFor(annos, f) ==
    LET ours == {i \in DOMAIN annos : annos[i].mine /\ annos[i].target = f}
    IN CHOOSE i \in ours : \A j \in ours : j <= i

(* enrollAnnotatedFunctions. Of several entries for a function the last    *)
(* one counts. A unit with none is left as it is.                          *)
Enroll ==
    LET annos == Source(unit).annos
    IN /\ phase = "enroll"
       /\ \/ /\ Enrolled(unit) = {}
             /\ NextUnit
          \/ /\ 0 \in Enrolled(unit)
             /\ phase' = "rejected"
             /\ UNCHANGED <<unit, annotated, described>>
          \/ /\ Enrolled(unit) # {}
             /\ 0 \notin Enrolled(unit)
             /\ annotated' = [f \in Enrolled(unit) \cup DOMAIN annotated |->
                                 IF f \in Enrolled(unit) THEN annos[LastFor(annos, f)].opts ELSE annotated[f]]
             /\ phase' = "describe"
             /\ UNCHANGED <<unit, described>>
       /\ UNCHANGED <<program, image>>

\* Mutant: any global with the option's bytes serves.
StringsFor_any(strs, text) ==
    LET same == {s \in strs : s.text = text}
    IN IF same = {} THEN {[text |-> text, by |-> "pass"]} ELSE same

(* findOrCreateStringGlobal: a constant with the option's bytes, whoever   *)
(* it belongs to, or a new one.                                            *)
StringsFor(strs, text) ==
    LET same == {s \in strs : s.text = text /\ s.by # "variable"}
    IN IF same = {} THEN {[text |-> text, by |-> "pass"]} ELSE same

\* Mutant: an external body leaves its name.
Renamed_noalias(im, f) ==
    IF Func(f).linkage \in {"declared", "copy"} THEN im
    ELSE [im EXCEPT !.symbol[f].impl = TRUE]

\* renameBody
Renamed(im, f) ==
    IF Func(f).linkage \in {"declared", "copy"} THEN im
    ELSE [im EXCEPT !.symbol[f].impl = TRUE,
                    !.alias = IF Func(f).linkage = "local" THEN @ ELSE @ \cup {f}]

\* What describing f adds: its options' strings are at, one for each.
Described(im, f, opts, at) ==
    [Renamed(im, f) EXCEPT !.opts = With(im.opts, f, at),
                           !.meta = With(im.meta, f, Meta(Func(f), opts)),
                           !.table = Append(im.table, f),
                           !.strs = im.strs \cup ToSet(at)]

(* The next function by name: parseKinds, renameBody, emitOpts, emitMeta,  *)
(* each of which may find the annotation malformed.                        *)
Describe ==
    /\ phase = "describe"
    /\ DOMAIN annotated \ described # {}
    /\ LET f == Min(DOMAIN annotated \ described)
           opts == annotated[f] IN
       \/ /\ ~ParseKinds(Func(f), opts).ok \/ ~RuntimeOk(opts)
          /\ phase' = "rejected"
          /\ UNCHANGED <<described, image>>
       \/ /\ ParseKinds(Func(f), opts).ok /\ RuntimeOk(opts)
          /\ \E at \in [DOMAIN opts -> UNION {StringsFor(image[unit].strs, opts[i]) :
                                                i \in DOMAIN opts}] :
                /\ \A i \in DOMAIN opts : at[i] \in StringsFor(image[unit].strs, opts[i])
                /\ image' = [image EXCEPT ![unit] = Described(@, f, opts, at)]
          /\ described' = described \cup {f}
          /\ UNCHANGED phase
    /\ UNCHANGED <<program, unit, annotated>>

\* Whether rewriteCallSites redirects the call.
Redirected(c) ==
    /\ c.to \in DOMAIN annotated
    /\ c.form = "plain"
    /\ Func(c.to).ret \in {"void", "ptr"}

(* emitMetaTableAndCtor, then rewriteCallSites: a function's calls are     *)
(* collected before its thunk, which calls it too, is made.                *)
Rewrite ==
    /\ phase = "describe"
    /\ DOMAIN annotated \subseteq described
    /\ LET stubs == {c.to : c \in {x \in image[unit].calls : Redirected(x)}} IN
       image' = [image EXCEPT ![unit].calls =
                    {IF Redirected(c) THEN [c EXCEPT !.via = "stub"] ELSE c : c \in @}
                      \cup {[to |-> f, form |-> "thunk", via |-> "body"] : f \in stubs}]
    /\ phase' = "erase"
    /\ UNCHANGED <<program, unit, annotated, described>>

\* The entries of other consumers.
Others(annos) == Picked(annos, {i \in DOMAIN annos : ~annos[i].mine})

(* eraseAnnotations: the entries of others move to a new table; a string   *)
(* goes when nothing uses it any more.                                     *)
Erase ==
    LET im == image[unit]
        kept == Others(im.annos)
        used == UNION {ToSet(im.opts[f]) : f \in DOMAIN im.opts}
        named == UNION {ToSet(e.opts) : e \in ToSet(kept)}
    IN /\ phase = "erase"
       /\ image' = [image EXCEPT ![unit].annos = kept,
                                 ![unit].strs = {s \in @ : \/ s.by # "clang"
                                                           \/ s \in used
                                                           \/ s.text \in named}]
       /\ NextUnit
       /\ UNCHANGED program

\* filc_async_validate_table of every unit, once the program's own
\* constructors have run.
Accepted(m) ==
    /\ DependenciesOk(m)
    /\ IF program.validator = "none" THEN Validate(m) ELSE program.validator = "all"

Startup ==
    /\ phase = "startup"
    /\ phase' = IF \A u \in DOMAIN image : \A f \in ToSet(image[u].table) :
                      Accepted(image[u].meta[f])
                THEN "running" ELSE "aborted"
    /\ UNCHANGED <<program, unit, annotated, described, image>>

PassInit ==
    /\ \E family \in Families : program \in family
    /\ unit = 1
    /\ phase = "enroll"
    /\ annotated = << >>
    /\ described = {}
    /\ image = [u \in DOMAIN program.units |-> Untouched(program.units[u])]

\* The compiler or the program has come to its end.
Ended ==
    /\ phase \in {"rejected", "aborted", "running"}
    /\ UNCHANGED passVars

PassNext == Enroll \/ Describe \/ Rewrite \/ Erase \/ Startup \/ Ended

PassSpec == PassInit /\ [][PassNext]_passVars

-----------------------------------------------------------------------------
(* Properties *)

\* The unit's entries for f, and what the last of them says.
EntriesFor(u, f) == {i \in DOMAIN Source(u).annos : Source(u).annos[i].mine /\ Source(u).annos[i].target = f}
Says(u, f) == Source(u).annos[Max(EntriesFor(u, f))].opts

\* The options of opts with a key in keys that name parameter p.
Naming(opts, keys, p) == {j \in DOMAIN opts : opts[j].key \in keys /\ opts[j].param = p.name}

(* opts give parameter p its kind and its dependency word: the last buffer *)
(* option that names it, or else its type, decides the kind, and the word  *)
(* is that of each dependency option that names it.                        *)
Tells(opts, p, kind, dep) ==
    LET buffers == Naming(opts, {"bin", "bout", "buf"}, p)
        deps == Naming(opts, {"r_dep", "w_dep"}, p)
    IN /\ kind = IF buffers # {} THEN BufferKind[opts[Max(buffers)].key]
                 ELSE IF p.type = "ptr" THEN "pending"
                 ELSE IF p.type = "constptr" THEN "in" ELSE "ignored"
       /\ deps = {} => dep = 0
       /\ \A j \in deps :
             /\ ModeOf(dep) = DepMode[opts[j].key]
             /\ dep \div 256 = HashNamespace(p.name, opts[j].ns)
             /\ (dep \div 4) % 2 = IF IsPointer(p.type) THEN 1 ELSE 0

(* A descriptor says what the function's last annotation says, in whatever *)
(* order that lists its options, whatever units were compiled before and   *)
(* whatever other entries the table has.                                   *)
DescriptorSaysIt ==
    \A u \in DOMAIN image : \A f \in ToSet(image[u].table) :
        LET fn == Source(u).func[f]
            m == image[u].meta[f]
        IN /\ f \in Enrolled(u)
           /\ m.opts = Says(u, f)
           /\ {m.runtime} = RuntimesOf(m.opts)
           /\ \A i \in DOMAIN fn.param : Tells(m.opts, fn.param[i], m.kind[i], m.dep[i])

(* What an annotation must keep to, as the reference page lists its        *)
(* errors; two dependencies that hash alike are the same to the code.      *)
Meaningful(fn, opts) ==
    /\ \A j \in DOMAIN opts : opts[j].key \notin {"fd", "read_dep", "write_dep"}
    /\ \A j \in DOMAIN opts : opts[j].key \in {"bin", "bout", "buf"} =>
          \E p \in ToSet(fn.param) : p.name = opts[j].param /\ p.name # "" /\ IsPointer(p.type)
    /\ \A j \in DOMAIN opts : opts[j].key \in {"r_dep", "w_dep"} =>
          /\ opts[j].ns \notin {NoNs, ""}
          /\ \E p \in ToSet(fn.param) : p.name = opts[j].param /\ p.name # "" /\ p.type # "other"
    /\ \A p \in ToSet(fn.param) : \A i, j \in Naming(opts, {"r_dep", "w_dep"}, p) :
          /\ opts[i].key = opts[j].key
          /\ HashNamespace(p.name, opts[i].ns) = HashNamespace(p.name, opts[j].ns)
    /\ RuntimesOf(opts) # {}
    /\ \A r, s \in RuntimesOf(opts) : r = s /\ r \notin {"", "1bad"}

(* The compiler stops on a program exactly when an annotation that counts  *)
(* is malformed or names no function.                                      *)
StopsExactly ==
    LET sound == \A u \in DOMAIN image : \A f \in Enrolled(u) :
                    f # 0 /\ Meaningful(Source(u).func[f], Says(u, f))
    IN /\ phase = "rejected" => ~sound
       /\ phase \in {"startup", "running", "aborted"} => sound

\* The names other units can link to.
Exports(u) == image[u].alias \cup {f \in DOMAIN Source(u).func :
                  Source(u).func[f].linkage = "external" /\ ~image[u].symbol[f].impl}

(* However units declare, define, annotate and call a function, each call  *)
(* still ends in its body: a redirected one through its stub's thunk,      *)
(* which is itself never redirected, any other directly, in its own unit   *)
(* or by the name the defining unit still exports. Calls are redirected    *)
(* only where this unit annotates the function and the stub fits.          *)
CallsReachBodies ==
    phase \in {"startup", "running"} =>
        \A u \in DOMAIN image : \A c \in image[u].calls :
            /\ c.via = "stub" <=> /\ c.form = "plain"
                                  /\ c.to \in Enrolled(u)
                                  /\ Source(u).func[c.to].ret # "word"
            /\ c.via = "stub" => \E t \in image[u].calls : t.to = c.to /\ t.form = "thunk"
            /\ c.via = "body" /\ Source(u).func[c.to].linkage \in {"declared", "copy"} =>
                  \A v \in DOMAIN image :
                      /\ c.to \in DOMAIN Source(v).func
                      /\ Source(v).func[c.to].linkage = "external"
                      => c.to \in Exports(v)

(* What the runtimes will read at startup and in every call is still there *)
(* when the pass is done and cannot be changed by the program; the entries *)
(* of other consumers are as they were, strings included.                  *)
AnnotationsAccounted ==
    phase \in {"startup", "running"} =>
        \A u \in DOMAIN image :
            /\ \A f \in ToSet(image[u].table) : \A j \in DOMAIN Says(u, f) :
                  LET s == image[u].opts[f][j] IN
                  s.text = Says(u, f)[j] /\ s.by # "variable" /\ s \in image[u].strs
            /\ image[u].annos = Others(Source(u).annos)
            /\ \A e \in ToSet(image[u].annos) : \A o \in ToSet(e.opts) :
                  \E s \in image[u].strs : s.text = o /\ s.by = "clang"

\* What the runtime will do with a call, and the arguments its stub marks.
OpOf(m) == IF m.runtime = "rpc" THEN RpcOp(m.opts) ELSE UringOp(m.opts)
Marked(m) == {x.arg : x \in {y \in ToSet(StubOps(m)) : y.op = "mark"}}

(* What startup settles. A program that compiled is stopped there only by  *)
(* a validator, or for more buffer options than parameters: never for the  *)
(* dependency words the pass gave it. One that runs has what the runtimes  *)
(* take for granted: the buffer a call will use is a pointer; one the call *)
(* fills is marked before submit; and no rpc upload marks its own payload, *)
(* whose end it waits for.                                                 *)
StartupSettles ==
    /\ phase = "aborted" =>
          \E u \in DOMAIN image : \E f \in Enrolled(u) :
              LET m == image[u].meta[f] IN
              \/ m.noped > m.nargs
              \/ IF program.validator = "none" THEN ~Validate(m) ELSE program.validator # "all"
    /\ phase = "running" /\ program.validator = "none" =>
          \A u \in DOMAIN image : \A f \in ToSet(image[u].table) :
              LET m == image[u].meta[f] IN
              /\ OpOf(m) \in {"pread", "pwrite", "openat", "step", "get", "put"} =>
                    IsPointer(Source(u).func[f].param[2].type)
              /\ OpOf(m) \in {"pread", "step", "get"} => 2 \in Marked(m)
              /\ OpOf(m) = "put" => Marked(m) = {}
              /\ 1 \in DOMAIN m.kind /\ OpOf(m) # "ignore" => 1 \notin Marked(m)

=============================================================================
