------------------------------ MODULE MCKeyInput ------------------------------
(* A small instance of KeyInput. *)
EXTENDS KeyInput

\* A letter, an accented letter, a key without text, and a text too long to be
\* one character.
KeyTexts == {<<97>>, <<195, 169>>, <<>>, <<97, 97, 97, 97, 97>>}

\* Around every border of the encoding
DecodedSamples == {1, 127, 128, 233, 2047, 2048, 8364, 65535, 65536, 128274, 1114111}

\* In ticks of half a second: a repeat every tick, every other tick, and none
\* because the rate is above the clock's.
RepeatInfos == {[rate |-> 2, delay |-> 2], [rate |-> 1, delay |-> 3], [rate |-> 5, delay |-> 2]}
=============================================================================
