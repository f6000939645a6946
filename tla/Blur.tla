--------------------------------- MODULE Blur ---------------------------------
(***************************************************************************)
(* stackblur (src/render/blur.cpp) on one line of one channel, in place.   *)
(* A picture is blurred line by line, then column by column by the same    *)
(* steps.  The channel is the lowest of a pixel: what is written is not    *)
(* masked, and a value above 255 reaches into the channel above, so only   *)
(* the lowest keeps to itself.                                             *)
(*                                                                         *)
(* The sums are uint32_t.  They are integers here, and taken modulo 2^32   *)
(* where the code shifts, the only place that could tell.                  *)
(***************************************************************************)
EXTENDS Integers, Sequences, Functions

CONSTANTS
    Radii,      \* blur_radius as configured
    Rows        \* lines of a picture

ASSUME BlurAssumption ==
    /\ Radii \subseteq Int
    /\ \A row \in Rows : row \in Seq(0..255) /\ row # <<>>

VARIABLES
    pc,         \* "called", "sliding", "done"
    radius,
    source,     \* history: the line as it was
    row,
    stack,
    bs, bi, bo, \* the weighted sum, and the sums of the half coming in and going out
    x,
    written     \* history: the values written, unmasked

vars == <<pc, radius, source, row, stack, bs, bi, bo, x, written>>

Width == Len(row)
div   == radius * 2 + 1

\* std::clamp(i, 0, width - 1); indexes count from 0 as in the code
Clamp(i) == IF i < 0 THEN 0 ELSE IF i > Width - 1 THEN Width - 1 ELSE i
At(line, i) == line[Clamp(i) + 1]

stackblur_mul == <<
    512, 512, 456, 512, 328, 456, 335, 512, 405, 328, 271, 456, 388, 335, 292, 512, 454,
    405, 364, 328, 298, 271, 496, 456, 420, 388, 360, 335, 312, 292, 273, 512, 482, 454,
    428, 405, 383, 364, 345, 328, 312, 298, 284, 271, 259, 496, 475, 456, 437, 420, 404,
    388, 374, 360, 347, 335, 323, 312, 302, 292, 282, 273, 265, 512, 497, 482, 468, 454,
    441, 428, 417, 405, 394, 383, 373, 364, 354, 345, 337, 328, 320, 312, 305, 298, 291,
    284, 278, 271, 265, 259, 507, 496, 485, 475, 465, 456, 446, 437, 428, 420, 412, 404,
    396, 388, 381, 374, 367, 360, 354, 347, 341, 335, 329, 323, 318, 312, 307, 302, 297,
    292, 287, 282, 278, 273, 269, 265, 261, 512, 505, 497, 489, 482, 475, 468, 461, 454,
    447, 441, 435, 428, 422, 417, 411, 405, 399, 394, 389, 383, 378, 373, 368, 364, 359,
    354, 350, 345, 341, 337, 332, 328, 324, 320, 316, 312, 309, 305, 301, 298, 294, 291,
    287, 284, 281, 278, 274, 271, 268, 265, 262, 259, 257, 507, 501, 496, 491, 485, 480,
    475, 470, 465, 460, 456, 451, 446, 442, 437, 433, 428, 424, 420, 416, 412, 408, 404,
    400, 396, 392, 388, 385, 381, 377, 374, 370, 367, 363, 360, 357, 354, 350, 347, 344,
    341, 338, 335, 332, 329, 326, 323, 320, 318, 315, 312, 310, 307, 304, 302, 299, 297,
    294, 292, 289, 287, 285, 282, 280, 278, 275, 273, 271, 269, 267, 265, 263, 261, 259 >>

\* Slip: the shifts run on one radius too long.
stackblur_shr_Late ==
    LET runs == << <<1, 9>>, <<2, 11>>, <<3, 12>>, <<5, 13>>, <<7, 14>>, <<11, 15>>, <<15, 16>>,
                   <<23, 17>>, <<31, 18>>, <<45, 19>>, <<63, 20>>, <<90, 21>>, <<127, 22>>,
                   <<182, 23>>, <<255, 24>> >>
    IN  [i \in 1..255 |-> runs[CHOOSE k \in DOMAIN runs :
           i <= runs[k][1] /\ \A j \in 1..(k - 1) : i > runs[j][1]][2]]

\* stackblur_shr, by its runs of equal values: how many entries up to each one's end
stackblur_shr ==
    LET runs == << <<1, 9>>, <<2, 11>>, <<3, 12>>, <<5, 13>>, <<7, 14>>, <<11, 15>>, <<15, 16>>,
                   <<22, 17>>, <<31, 18>>, <<45, 19>>, <<63, 20>>, <<90, 21>>, <<127, 22>>,
                   <<181, 23>>, <<255, 24>> >>
    IN  [i \in 1..255 |-> runs[CHOOSE k \in DOMAIN runs :
           i <= runs[k][1] /\ \A j \in 1..(k - 1) : i > runs[j][1]][2]]

\* (sum * mul_val) >> shr_val in 32 bits, by halves of 16 bits
Scaled(sum) ==
    LET mul  == stackblur_mul[radius + 1]
        shr  == stackblur_shr[radius + 1]
        low  == (sum % 65536) * mul
        high == (((sum \div 65536) % 65536) * mul + (low \div 65536)) % 65536
    IN  IF shr >= 16 THEN high \div 2^(shr - 16)
                     ELSE high * 2^(16 - shr) + ((low % 65536) \div 2^shr)

Sum(line) ==
    LET upTo[i \in 0..Len(line)] == IF i = 0 THEN 0 ELSE upTo[i - 1] + line[i]
    IN  upTo[Len(line)]

Init ==
    /\ pc = "called"
    /\ radius \in Radii /\ source \in Rows /\ row = source
    /\ stack = <<>> /\ bs = 0 /\ bi = 0 /\ bo = 0
    /\ x = 0 /\ written = <<>>

-----------------------------------------------------------------------------

\* radius < 1: no-op
Return ==
    /\ pc = "called" /\ radius < 1
    /\ pc' = "done"
    /\ UNCHANGED <<radius, source, row, stack, bs, bi, bo, x, written>>

Capped(r) == IF r > 254 THEN 254 ELSE r

\* Slip: the pixel itself counts no more than its neighbours.
Weight_Flat(i, r) == IF i = 0 THEN r ELSE r + 1 - (IF i < 0 THEN -i ELSE i)

\* How much the pixel i places off counts
Weight(i, r) == r + 1 - (IF i < 0 THEN -i ELSE i)

\* The stack around the first pixel, the edges repeated
Fill ==
    /\ pc = "called" /\ radius >= 1
    /\ radius' = Capped(radius)
    /\ LET r == radius'
           p == [k \in 1..(2 * r + 1) |-> At(row, k - 1 - r)]
       IN  /\ stack' = p
           /\ bs' = Sum([k \in 1..(2 * r + 1) |-> p[k] * Weight(k - 1 - r, r)])
           /\ bi' = Sum(SubSeq(p, r + 2, 2 * r + 1))
           /\ bo' = Sum(SubSeq(p, 1, r + 1))
    /\ pc' = "sliding"
    /\ UNCHANGED <<source, row, x, written>>

\* Slip: the pixel that comes in is taken from where the window begins.
Incoming_Early(blurred) == At(blurred, x + radius)

Incoming(blurred) == At(blurred, x + radius + 1)

\* One pixel is written, the oldest leaves the stack, one comes in.  The line
\* read is the one just written.
Slide ==
    /\ pc = "sliding" /\ x < Width
    /\ LET blurred  == [row EXCEPT ![x + 1] = Scaled(bs) % 256]
           outgoing == stack[(x % div) + 1]
           incoming == Incoming(blurred)
       IN  /\ row' = blurred
           /\ written' = Append(written, Scaled(bs))
           /\ stack' = [stack EXCEPT ![(x % div) + 1] = incoming]
           /\ bs' = bs - bo + (bi + incoming)
           /\ bi' = bi
           /\ bo' = bo - outgoing + At(blurred, x + 1 - radius)
    /\ x' = x + 1
    /\ UNCHANGED <<pc, radius, source>>

Finish ==
    /\ pc = "sliding" /\ x = Width
    /\ pc' = "done"
    /\ UNCHANGED <<radius, source, row, stack, bs, bi, bo, x, written>>

Done == pc = "done" /\ UNCHANGED vars

Next == Return \/ Fill \/ Slide \/ Finish \/ Done

Spec == Init /\ [][Next]_vars

-----------------------------------------------------------------------------
(* Properties *)

\* A line of one shade is left as it is, for every radius and shade: the tables
\* divide, no sum overflows, and what leaves a sum came into it (blur.cpp:9-46, 48-62).
FlatStaysFlat == (\A i \in DOMAIN row : source[i] = source[1]) => row = source

\* Although the line is overwritten, the stack holds the pixels around x as they
\* were, edges repeated, for radii larger than the line too (blur.cpp:98-125).
StackIsWindow ==
    (pc = "sliding" /\ x < Width) =>
        \A k \in 0..(div - 1) : stack[((x + k) % div) + 1] = At(source, x - radius + k)

weight == (radius + 1) * (radius + 1)

\* The window of the first pixel, each pixel as often as it is near
exact == Sum([k \in 1..div |->
           At(source, k - 1 - radius) * (IF k <= radius THEN k ELSE 2 * radius + 2 - k)])

\* The first pixel is the mean of its window, weighted by nearness, to within 1.
FirstPixelIsMean ==
    (pc = "sliding" /\ x > 0) => written[1] * weight \in (exact - weight)..(exact + weight)

\* src/render/blur.hpp:10, "Stackblur produces results visually indistinguishable
\* from Gaussian blur": a blur averages, so nothing comes out brighter or darker
\* than all that went in.  But the sum going out is fed with pixels already
\* blurred (blur.cpp:134), and bi is left as it was (blur.cpp:140).
AveragesStayBetween ==
    \A i \in DOMAIN written :
        /\ \E j \in DOMAIN source : source[j] <= written[i]
        /\ \E j \in DOMAIN source : written[i] <= source[j]

\* The inductive invariant for StackIsWindow: what has yet to be written is as
\* it was.
IInv ==
    /\ radius \in Int /\ source \in Rows
    /\ row = [j \in DOMAIN source |-> row[j]]
    /\ pc = "called" => x = 0 /\ row = source
    /\ pc = "sliding" =>
         /\ radius >= 1 /\ x \in 0..Width
         /\ stack = [k \in 1..div |-> stack[k]]
         /\ \A j \in (x + 1)..Width : row[j] = source[j]
         /\ StackIsWindow

\* The three sums of a line of one shade
FlatSums ==
    (\A i \in DOMAIN source : source[i] = source[1]) =>
        /\ row = source
        /\ pc = "sliding" => /\ bs = source[1] * weight
                             /\ bi = source[1] * radius /\ bo = source[1] * (radius + 1)

\* The weighted sum before the first pixel, and what was written of it
FirstSum ==
    /\ written = [k \in 1..x |-> written[k]]
    /\ pc = "sliding" => radius \in 1..254 /\ (x = 0 => bs = exact) /\ FirstPixelIsMean
=============================================================================
