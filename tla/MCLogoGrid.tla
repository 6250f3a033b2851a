------------------------------ MODULE MCLogoGrid ------------------------------
(* Two styles; s1 is sold in two colors, s2 in one.                          *)
EXTENDS LogoGrid

CONSTANTS s1, s2, c1, c2, d1, d2, u, m

(* A row of option row o and position p of a channel.                        *)
Row(d, url, n, a) == Value(d, url, n, a)
Grid(f(_)) == [k \in Slots |-> f(k)]

MCLive  == {<<s1, c1>>, <<s1, c2>>, <<s2, c1>>}
MCClass == [c \in Colors |-> IF c = c1 THEN {"light"} ELSE {"light", "dark"}]

(* Color c1 of s1 has two option rows, the first with a companion; its color *)
(* c2 has the same logos in another order, or none; s2 has one row hidden.   *)
First(k) ==
    CASE k = <<s1, c1, 1, 1>> -> Row(d1, None, 10, TRUE)
      [] k = <<s1, c1, 1, 2>> -> Row(d2, u, 10, TRUE)
      [] k = <<s1, c1, 2, 1>> -> Row(d2, None, 20, TRUE)
      [] k = <<s1, c2, 1, 1>> -> Row(d2, None, 10, TRUE)
      [] k = <<s2, c1, 1, 1>> -> Row(d1, u, 10, FALSE)
      [] OTHER -> None
Second(k) ==
    CASE k = <<s1, c1, 1, 1>> -> Row(d2, u, 10, TRUE)
      [] k = <<s1, c1, 1, 2>> -> Row(d1, u, 10, TRUE)
      [] k = <<s2, c1, 2, 1>> -> Row(d1, u, 20, TRUE)
      [] OTHER -> None
MCStart == {Grid(First), Grid(Second)}

(* An anchor with its companion; a hidden anchor; a companion alone.         *)
MCClipboards ==
    {[x \in {<<1, 1>>, <<1, 2>>} |-> IF x[2] = 1 THEN Row(d1, None, 10, TRUE) ELSE Row(d2, None, 10, TRUE)],
     [x \in {<<1, 1>>} |-> Row(d1, None, 10, FALSE)],
     [x \in {<<1, 2>>, <<2, 1>>} |-> Row(d1, u, 20, TRUE)]}

(* A companion before its anchor, and again after it; an anchor hidden above *)
(* its companion.                                                            *)
Line(s, c, o, p, v) == [slot |-> <<s, c, o, p>>, value |-> v]
MCFiles ==
    {<<Line(s1, c2, 2, 2, Row(d1, None, 10, TRUE)), Line(s1, c2, 2, 1, Row(d2, u, 10, TRUE)),
       Line(s1, c2, 2, 2, Row(d1, None, 20, TRUE))>>,
     <<Line(s1, c1, 1, 1, Row(d1, None, 30, FALSE)), Line(s1, c1, 1, 2, Row(d1, None, 30, TRUE))>>}
MCMirror == [x \in {u} |-> m]

MCSaved == {Row(d1, None, 10, TRUE), Row(d1, None, 10, FALSE), Row(d2, u, 10, TRUE)}
==============================================================================
