----------------------------- MODULE MCLibrary ------------------------------
(* Small instances of the library's functions and the text devices for TLC. *)
EXTENDS Library

Directive(flags, width, precision, mod, conv, arg, star) ==
    [flags |-> flags, width |-> width, precision |-> precision, mod |-> mod, conv |-> conv, arg |-> arg, star |-> star]

\* Every set of flags with a few numbers, and every kind of integer with a few flags.
MCNumbers ==
    {Directive(f, w, p, "", c, n, FALSE) :
        f \in SUBSET {"-", "+", " ", "#", "0", "'"}, w \in {0, 6}, p \in {-1, 2}, c \in {"d", "o", "X"}, n \in {0, 9, -1500}}
      \cup {Directive(f, w, p, m, c, n, w = 5) :
        f \in {{}, {"#"}, {"0", "-"}}, w \in {0, 5}, p \in {-1, 0, 3}, m \in {"", "hh", "h", "l"},
        c \in {"d", "u", "o", "x"}, n \in {5, -1, 2047, -2048, 100}}
MCTextDirectives ==
    {Directive(f, w, p, "", "s", t, FALSE) :
        f \in {{}, {"-"}}, w \in {0, 2, 4}, p \in {-1, 0, 1, 2, 3}, t \in {<<>>, <<"u">>, <<"u", "v">>, <<"u", "v", "w", "x">>}}

MCStrings == {t \o <<"NUL">> \o j : t \in UNION {[1 .. n -> {"a", "b", " "}] : n \in 0 .. 2} \cup [1 .. 3 -> {"a", " "}], j \in {<<>>, <<"z", "z">>}}
MCCode == ("NUL" :> 0) @@ (" " :> 1) @@ ("a" :> 2) @@ ("b" :> 3) @@ ("z" :> 4)

MCWords == ("video-mode" :> <<"v">>) @@ ("boot-args" :> <<"b", "a">>)
        @@ ("ntscp" :> <<"p">>) @@ ("ntsci" :> <<"i">>) @@ ("pal60" :> <<"6">>) @@ ("pal50" :> <<"5">>)
MCSettings == {[vmode |-> m, args |-> <<"o">>, configured |-> 1] : m \in {"ntscp", "pal50"}}
MCConfigLines ==
    {[key |-> k, value |-> v, pad |-> n, comment |-> n = 1] : k \in {<<>>, <<"v">>, <<"b", "a">>, <<"x">>}, n \in 0 .. 1,
        v \in {<<>>, <<"5">>, <<"i">>, <<"s", " ", "=">>, <<"a", "b", "c", "d">>}}

MCEntries == {<<>>, <<"Kernel-__TEXT">>, <<"Kernel-__TEXT", "Kernel-__DATA">>}
MCDrivers == {<<>>, <<14680064>>, <<14680064, 268435455>>, <<16, 256, 4096>>}
MCLines0 == {"", "-", "-v", "-v d", "-s debug"}
MCNames == UNION {[1 .. n -> {65, 97, 198, 8204}] : n \in 0 .. 3}
MCRecords == {[name |-> n, parent |-> 2, type |-> t, wrong |-> w] : n \in {<<>>, <<65, 198>>}, t \in 1 .. 5, w \in {0, 2}}
MCLeaves == UNION {[1 .. n -> MCRecords] : n \in 1 .. 2}
MCTrees ==
    {<<[path |-> <<"a">>, size |-> n]>> : n \in {0, 3, 4, 9}}
      \cup {<<[path |-> <<"d">>, size |-> -1], [path |-> <<"e">>, size |-> -1], [path |-> <<"a">>, size |-> 5],
             [path |-> <<"d", "b">>, size |-> 0], [path |-> <<"d", "a">>, size |-> n]>> : n \in {4, 8}}
MCPaths == {<<"a">>, <<"d">>, <<"d", "a">>, <<"d", "b">>, <<"e", "a">>, <<"a", "b">>, <<"d", "a", "b">>, <<"">>, <<"a", "">>, <<"thirteencharac">>}
MCVersions == [1 .. 3 -> -1 .. 1]
MCMoves ==
    {[whence |-> "read", n |-> k] : k \in {1, 4, 6}} \cup {[whence |-> "set", n |-> k] : k \in {0, 3, 4}}
      \cup {[whence |-> "cur", n |-> k] : k \in {-1, 1}} \cup {[whence |-> "end", n |-> k] : k \in {-4, -1, 0}}
MCOperations == UNION {[1 .. n -> MCMoves] : n \in 1 .. 3}
MCColours == {0, 128, 255} \X {0, 128, 255} \X {0, 255}

Says(f, a, t) == [format |-> f, args |-> a, text |-> t]
MCFormats ==
    <<Says(<<"o", "k", " ">>, <<>>, <<"o", "k">>), Says(<<"%", "d", "!">>, <<42>>, <<"4", "2", "!">>), Says(<<>>, <<>>, <<>>),
      Says(<<"%", "s">>, <<<<"f", "u", "l", "l">>>>, <<"f", "u", "l", "l">>)>>
MCTextLines ==
    {LET f == MCFormats[i]
         r == vsnprintf([c \in 1 .. CONSOLE_COLS |-> NUL], CONSOLE_COLS, f.format, f.args)
     IN  [buffer |-> r.buffer, ret |-> r.ret, text |-> f.text] : i \in DOMAIN MCFormats}
MCTexts == {Parsed(t.format, t.args).out :
                t \in {[format |-> <<"%", "d">>, args |-> <<-57>>], [format |-> <<"h", "i">>, args |-> <<>>],
                       [format |-> <<>>, args |-> <<>>]}}
MCBytes == {"x", "\r", "h", "i", "-", "5", "7"}
=============================================================================
