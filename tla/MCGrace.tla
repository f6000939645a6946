-------------------------------- MODULE MCGrace --------------------------------
(* A small instance of Grace. *)
EXTENDS Grace, TLC

SomeTexts == {"1", "1.5", "yes", "80ff0040"}

\* stod in halves; stof and stoi, rounded down alike
SomeNumbers ==
    [number  |-> "1" :> 2 @@ "1.5" :> 3 @@ "yes" :> Throws @@ "80ff0040" :> 160,
     integer |-> "1" :> 1 @@ "1.5" :> 1 @@ "yes" :> Throws @@ "80ff0040" :> 80,
     float   |-> "1" :> 1 @@ "1.5" :> 1 @@ "yes" :> Throws @@ "80ff0040" :> 80]

SomeHex ==
    "1"   :> [size |-> 1, bytes |-> <<0, 0, 0, 1>>] @@ "1.5"      :> [size |-> 3, bytes |-> <<0, 0, 0, 1>>] @@
    "yes" :> [size |-> 3, bytes |-> <<0, 0, 0, 0>>] @@ "80ff0040" :> [size |-> 8, bytes |-> <<128, 255, 0, 64>>]

\* The sections share a key or have none of a name; numbers of a field are good,
\* bad, or bad only as another's.
SomeLines ==
    {Header("general"), Header("label"), OpenHeader,
     Pair("grace_period", "1"), Pair("grace_period", "1.5"), Pair("grace_period", "yes"),
     Pair("fingerprint", "yes"), Pair("color", "80ff0040"), Pair("font", "1")}

\* Every file of up to two lines; those of three begin with a header, as another
\* first line would do nothing.
SomeFiles ==
    UNION {[1..n -> SomeLines] : n \in 0..2} \cup {f \in [1..3 -> SomeLines] : f[1].type = "header"}

SomeSkews == {-3, 0}
TwoRuns == Permutations(Runs)

\* Beyond the first start, only files that set the grace period to 1, 1.5, or leave
\* it at 5: the others read the same.
FewFiles ==
    {<<>>, <<Header("general"), Pair("grace_period", "1")>>,
           <<Header("general"), Pair("grace_period", "1.5")>>}
FirstStart == stamp = Missing /\ time = 0 /\ skew = 0
Followed == file \in FewFiles \/ FirstStart
=============================================================================
