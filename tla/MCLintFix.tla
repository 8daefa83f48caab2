------------------------------ MODULE MCLintFix ------------------------------
\* Small mappings for LintFix.
EXTENDS LintFix

Call(args) == <<Without>> \o Separated(args) \o <<")">>
Twice == Call(<<"a">>) \o Call(<<"b">>)

\* A receiver, alone or with consecutive calls in its argument.
MCReceivers ==
  {<<"x">>} \cup {<<"x", Map>> \o p \o <<"x">> \o Twice \o q \o <<")">> :
                    p \in {<<>>, <<"\n">>, <<"\n", Disable, "\n">>}, q \in {<<>>, <<"\n">>}}

MCCalls == {Call(args) : args \in {<<>>, <<"a">>, <<"b">>, <<"v">>, <<"a", "b">>}}
MCBetween == {<<>>, <<"\n">>, <<"\n", Disable, "\n">>}

MCChains ==
  {r \o c \o t \o d : r \in MCReceivers, c \in MCCalls, d \in MCCalls \cup {<<>>}, t \in MCBetween}
  \cup {r \o Call(<<"a">>) \o c \o t \o d \o t \o Twice :
          r \in MCReceivers, c \in MCCalls, d \in MCCalls, t \in MCBetween}

MCMappings ==
  {p \o <<"root =">> \o c : c \in MCChains, p \in {<<>>, <<"\n">>, <<Disable, "\n">>}}

\* Statements one after the other, mappings of a YAML file, and imports.
Shorts == {<<"root =", "x">> \o r : r \in {Twice, Twice \o Call(<<"v">>), Call(<<"v">>) \o Twice}}
Two == {m \o <<"\n">> \o p \o n : m \in Shorts, n \in Shorts, p \in {<<>>, <<Disable, "\n">>}}
MCYaml == {<<s>> \o m \o <<z>> \o n : s \in Styles, z \in Styles, m \in Shorts, n \in Two}
MCImporting == {i \o <<"\n">> \o n : i \in {<<"f">>, <<"f", "g">>}, n \in Shorts}

MCHosts == MCMappings \cup Two \cup MCYaml \cup MCImporting

\* With what the rounds of the loop make of them.
RECURSIVE Closure(_, _)
Closure(all, new) ==
  IF new = {} THEN all
  ELSE LET next == {ApplyToolEdits(h, Edits(h)) : h \in new} IN Closure(all \cup next, next \ all)

MCFiles == Closure(MCHosts, MCHosts)

\* Every import graph of two files, either of which may be missing.
MCDisks(h) ==
  IF Imports(h) = <<>> THEN {<<>>}
  ELSE UNION {[files -> {<<>>, <<"f">>, <<"g">>, <<"g", "g">>}] : files \in SUBSET {"f", "g"}}
==============================================================================
