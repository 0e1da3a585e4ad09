----------------------------- MODULE MCLibrary -----------------------------
(***************************************************************************)
(* Library over words of five bits, memory of 32 bytes with words of four, *)
(* formats of two items and small tables of stabs.                         *)
(***************************************************************************)
EXTENDS Library

MCHalf == 16
MCPower == {1, 2, 4, 8, 16}
MCPairs == (0..31) \X (0..31)

MCMemory == 0..31
MCCopies == [dst : 16..19, src : 0..3, length : 0..11]

\* Text, and conversions with and without flag and width, of both signs and of
\* every base; widths with room for the digits and without; null strings.
Plain(conv, text) == [conv |-> conv, text |-> text, width |-> 0, zero |-> FALSE, arg |-> 0]
Items ==
    {Plain("text", <<"t">>), Plain("%", <<>>)}
    \cup [conv : {"d"}, text : {<<>>}, width : {0, 3}, zero : {FALSE, TRUE}, arg : {-10, 7}]
    \cup [conv : {"u", "o", "x"}, text : {<<>>}, width : {2}, zero : {TRUE}, arg : {0, 9, 100}]
    \cup [conv : {"u", "o", "x", "p"}, text : {<<>>}, width : {0}, zero : {FALSE}, arg : {0, 27}]
    \cup [conv : {"c"}, text : {<<>>}, width : {0, 2}, zero : {FALSE}, arg : {"c"}]
    \cup [conv : {"s"}, text : {<<>>}, width : {0, 3}, zero : {FALSE},
          arg : {NullString, <<>>, <<"s", "s", "s", "s">>}]
MCFormats == {<<>>} \cup {<<a>> : a \in Items} \cup {<<a, b>> : a \in Items, b \in Items}
             \cup {<<a, Plain("end", <<>>)>> : a \in Items}
MCSizes == {1, 3, 10}
MCPrinted ==
    {<<[conv |-> "s", text |-> <<>>, width |-> 0, zero |-> FALSE, arg |-> arg]>> :
       arg \in {<<>>, <<"s", "t">>, <<"s", "t", "r", "i", "n", "g">>}}

MCGreeting == <<"H", "e", "l", "l", "o">>
MCKeys == {"k", NUL}

\* A file with an included one, lines of one address in a row and apart.
Stab(type, value, desc) == [type |-> type, value |-> value, desc |-> desc]
Rows == {Stab("SO", 8, 1), Stab("SO", 10, 0), Stab("SOL", 9, 0), Stab("SLINE", 0, 1),
         Stab("SLINE", 4, 2), Stab("FUN", 8, 0), Stab("LSYM", 4, 3)}
MCTables == {<<Stab("SO", 8, 1), a, b, c, d>> : a \in Rows, b \in Rows, c \in Rows, d \in Rows}
MCAddresses == {8, 13}

MCFiles ==
    [class : {32, 64}, sound : {TRUE},
     sections : {<<"", a, b, c>> : a, b, c \in {".text", STABS, STABSTR}}]
    \cup {[class |-> 32, sound |-> FALSE, sections |-> <<>>]}
=============================================================================
