---------------------------- MODULE MCAsyncPass ----------------------------
(***************************************************************************)
(* Programs for AsyncPass: one function under every short list of options, *)
(* functions of every shape the runtimes know, and pairs of units that     *)
(* define, declare, annotate and call a function in different ways.        *)
(***************************************************************************)
EXTENDS AsyncPass

Opt(key, param, ns) == [key |-> key, param |-> param, ns |-> ns]
Rt(name) == Opt("runtime", name, NoNs)
Op(name) == Opt("op", name, NoNs)
P(name, type) == [name |-> name, type |-> type]
Fn(param, ret, linkage) == [param |-> param, ret |-> ret, linkage |-> linkage]
Entry(f, opts) == [mine |-> TRUE, target |-> f, opts |-> opts]
Foreign(f, opts) == [mine |-> FALSE, target |-> f, opts |-> opts]
Call(f, form) == [to |-> f, form |-> form, via |-> "body"]

\* A unit with clang's strings for its annotations and some of the program's.
Unit(func, annos, calls, own) ==
    [func |-> func, annos |-> annos, calls |-> calls,
     strs |-> own \cup {[text |-> o, by |-> "clang"] :
                           o \in {x \in UNION {ToSet(e.opts) : e \in ToSet(annos)} : x.key # ""}}]

\* Hash values 0 and 1 coincide once 0 has become 1.
MCHash == [x \in {"a", "b", "nosuch", ""} \X {"x", "y", "z"} |->
              CASE x = <<"a", "x">> -> 0 [] x = <<"a", "y">> -> 1 [] OTHER -> 2]

-----------------------------------------------------------------------------
ArgOptions ==
    {Opt(key, "a", NoNs) : key \in {"bin", "bout", "buf"}} \cup
    {Opt(key, "a", ns) : key \in {"r_dep", "w_dep"}, ns \in {"x", "y", "z"}} \cup
    {Opt("bin", "b", NoNs), Opt("r_dep", "b", "z")}

BadOptions ==
    {Opt("bin", "nosuch", NoNs), Opt("buf", "", NoNs), Opt("r_dep", "a", NoNs),
     Opt("w_dep", "a", ""), Opt("r_dep", "", "x"), Opt("fd", "a", NoNs), Opt("read_dep", "a", "x"),
     Opt("", "", NoNs), Rt("rpc"), Rt("1bad"), Op("ignore")}

ParamLists == {<<P("a", s), P("b", t)>> : s \in {"ptr", "constptr"}, t \in {"int", "other"}}
                  \cup {<<P("a", "ptr")>>, <<P("", "ptr"), P("", "int")>>}

One(params, opts) ==
    [units |-> <<Unit(1 :> Fn(params, "void", "external"), <<Entry(1, opts)>>,
                      {Call(1, "plain")}, {})>>,
     validator |-> "all"]

OptionLists ==
    {<<Rt("io_uring"), o>> : o \in BadOptions} \cup
    {<<o>> : o \in BadOptions} \cup
    {<<Rt("io_uring"), o, q, r>> : o, q \in ArgOptions, r \in {Op("ignore")} \cup ArgOptions}

OptionPrograms == {One(params, opts) : params \in ParamLists, opts \in OptionLists}

-----------------------------------------------------------------------------
Shapes == UNION {[1 .. n -> {"ptr", "constptr", "int"}] : n \in 1 .. 4} \cup
          {<<"int", s, "int", "int", t>> : s, t \in {"ptr", "constptr", "int"}}
Names == <<"a", "b", "c", "d", "e">>
ShapeOptions ==
    {<<Rt(r), Op(op)>> \o more :
        r \in {"io_uring", "rpc"},
        op \in {"pread", "pwrite", "openat", "fsync", "ignore", "get", "put", "other"},
        more \in {<< >>, <<Opt("bin", "b", NoNs)>>, <<Opt("bout", "b", NoNs)>>, <<Op("step")>>}}

ShapePrograms ==
    {[units |-> <<Unit(1 :> Fn([i \in DOMAIN s |-> P(Names[i], s[i])], "ptr", "local"),
                       <<Entry(1, opts)>>, {Call(1, "plain")}, {})>>,
      validator |-> v] : s \in Shapes, opts \in ShapeOptions, v \in {"none"}}

-----------------------------------------------------------------------------
\* Function 1 is the one shared; 2 is another, enrolled in the second unit.
Fs(linkage, ret) == (1 :> Fn(<<P("a", "ptr")>>, ret, linkage)) @@
                    (2 :> Fn(<<P("a", "int")>>, "void", "local"))
Ignore == <<Rt("io_uring"), Op("ignore")>>
Tables ==
    {<< >>, <<Entry(1, Ignore)>>, <<Foreign(1, Ignore)>>, <<Entry(2, Ignore)>>,
     <<Entry(1, <<Rt("rpc")>>), Foreign(2, <<Op("ignore")>>), Entry(1, Ignore)>>,
     <<Foreign(2, Ignore), Entry(2, Ignore), Entry(1, <<Rt("io_uring"), Opt("", "", NoNs)>>)>>,
     <<Entry(0, Ignore)>>}
Own == {{}, {[text |-> Op("ignore"), by |-> "variable"]}, {[text |-> Op("ignore"), by |-> "constant"]}}

LinkPrograms ==
    {[units |-> <<Unit(Fs(l, r), t, {Call(1, form), Call(2, "plain")}, own),
                  Unit(Fs(IF l = "external" THEN "declared" ELSE "external", r), t2,
                       {Call(1, "plain"), Call(1, "indirect")}, {})>>,
      validator |-> v] :
        l \in Linkage, r \in {"void", "word"}, t, t2 \in Tables,
        form \in {"plain", "invoke", "mismatch"}, own \in Own, v \in {"none", "refuses"}}

MCPrograms == {OptionPrograms, ShapePrograms, LinkPrograms}
=============================================================================
