--------------------------- MODULE MCInterpreter ---------------------------
(* Scripts of one or two instructions after some pushes, all short nestings of *)
(* conditionals, and the checks of one signature and of several.              *)
EXTENDS Interpreter

I(op) == [op |-> op, data |-> <<>>, n |-> 0]
N(n) == [op |-> "N", data |-> <<>>, n |-> n]
P(d) == [op |-> "PUSH", data |-> d, n |-> 0]
Long(op, d) == [op |-> op, data |-> d, n |-> 0]

\* Bytes 1 and 5 are signatures' first bytes, 2 and 6 keys'.
SigA == <<1, 1, 1>>
SigB == <<1, 1, 2>>
SigX == <<1, 1, 5>>   \* DER, of an unknown hash type
Key1 == <<2, 1, 1>>
Key2 == <<2, 1, 2>>
Key3 == <<6, 1, 1>>
Bad == <<7, 7, 7>>

MCPushLimits == <<3, 5, 7>>
MCDer == {SigA, SigB, SigX}
MCTyped == {SigA, SigB}
MCCompressed == {Key1, Key2}
MCUncompressed == {Key3}
MCAccepted == {<<SigA, Key1>>, <<SigB, Key2>>, <<SigA, Key3>>, <<SigB, Key1>>}
MCTx == [lockTime |-> 20, final |-> FALSE, version |-> 2, sequence |-> 5]

\* Some pushes of numbers and of data, and then one or two instructions.
Pushes == {N(0), N(2), N(1), N(-1), P(<<4, 3>>), P(<<4, 7>>), P(<<1, 0>>)}
Shapes == (DOMAIN Moves) \cup (DOMAIN Arity) \cup
          {"PICK", "ROLL", "IFDUP", "DEPTH", "SIZE", "EQUAL", "TOALTSTACK", "FROMALTSTACK",
           "SHA256", "EQUALVERIFY", "NUMEQUALVERIFY", "VERIFY", "NOP", "NOP1", "RETURN",
           "CODESEPARATOR", "CHECKLOCKTIMEVERIFY", "CHECKSEQUENCEVERIFY", "OTHER"}
Deep == <<N(1), N(2), P(<<4, 3>>), N(0)>>
\* Sixteen and sixteen, doubled until the sum is one above the largest number.
Doubled ==
  <<P(<<0, 2>>), P(<<0, 2>>), I("ADD")>> \o [i \in 1..6 |-> I(<<"DUP", "ADD">>[2 - (i % 2)])]
Plainly == {Deep \o <<x, y>> \o <<I(a)>> : x \in Pushes, y \in Pushes, a \in Shapes}
           \cup {<<x, I(a)>> : x \in Pushes, a \in Shapes}
           \cup {<<x, I(a), I("SIZE")>> : x \in Pushes \cup {P(<<4, 0>>)}, a \in {"NEGATE", "1SUB"}}
           \cup {<<x, y, I("TOALTSTACK"), I(a), I("FROMALTSTACK")>> :
                   x \in Pushes, y \in Pushes, a \in {"1ADD", "DUP", "SIZE", "VERIFY"}}
           \cup {<<Long(o, d), I("SIZE")>> :
                   o \in {"PUSH", "PUSHDATA1", "PUSHDATA2", "PUSHDATA4"},
                   d \in {<<>>, <<1>>, <<5>>, <<0>>, <<1, 0>>, <<1, 2, 3>>, <<1, 2, 3, 4, 5, 6>>}}
           \cup {<<N(1), [op |-> "CUT", data |-> <<>>, n |-> 0]>>, <<I("RESERVED")>>, [i \in 1..9 |-> I("NOP")]}
           \cup {Doubled \o <<I(a)>> : a \in {"NEGATE", "ABS", "1ADD", "1SUB", "SIZE"}}
Flow == {I("IF"), I("NOTIF"), I("ELSE"), I("ENDIF"), N(1), I("DROP")}
Branching == {<<a>> \o s : a \in {N(0), N(1), P(<<2>>)},
                s \in {<<b, c, d, e>> : b \in Flow, c \in Flow, d \in Flow, e \in Flow \cup {I("VERIF")}}}

Sigs == {<<>>, SigA, SigB, SigX, Bad}
Keys == {Key1, Key2, Key3, Bad}
Sep == {<<>>, <<I("CODESEPARATOR")>>}
Single == {<<P(s), P(k)>> \o c \o <<I(o)>> \o t : s \in Sigs, k \in Keys, c \in Sep,
             o \in {"CHECKSIG", "CHECKSIGVERIFY"}, t \in {<<>>, <<P(SigA), I("NOP")>>, <<P(SigA)>>}}
Multi(d, s, k) ==
  <<d>> \o [i \in 1..Len(s) |-> P(s[i])] \o <<N(Len(s))>>
  \o [i \in 1..Len(k) |-> P(k[i])] \o <<N(Len(k))>>
Several == {Multi(N(0), s, k) \o <<I(o)>> :
              s \in {<<x>> : x \in Sigs} \cup {<<x, y>> : x \in Sigs \ {SigX}, y \in {SigA, SigB, Bad}},
              k \in {<<x, y>> : x \in Keys, y \in Keys} \cup {<<x, Key3, y>> : x \in Keys, y \in Keys},
              o \in {"CHECKMULTISIG"}}
           \cup {<<x, y, z, I("CHECKMULTISIGVERIFY")>> : x \in Pushes, y \in Pushes, z \in Pushes}
           \cup {Multi(N(2), <<SigA>>, <<Key1>>) \o <<I("CHECKMULTISIG")>>}

MCScripts == Plainly \cup Branching \cup Single \cup Several
MCFlagSets == {{}, {"MINIMALDATA", "NULLDUMMY", "NULLFAIL", "CONST_SCRIPTCODE", "MINIMALIF",
                    "CHECKLOCKTIMEVERIFY", "CHECKSEQUENCEVERIFY"},
               {"STRICTENC", "DERSIG", "WITNESS_PUBKEYTYPE", "DISCOURAGE_UPGRADABLE_NOPS"}}
=============================================================================
