------------------------------ MODULE MCBlocks ------------------------------
(* Bytes of four bits, words of two bytes.                                  *)
EXTENDS StoreFile

MCStreams == {[kind |-> "NONE", width |-> 0], [kind |-> "REAL", width |-> 0], [kind |-> "STRING", width |-> 0]}
               \cup {[kind |-> "LOGIC", width |-> w] : w \in {0, 3, 9}}

MCProbes == {-128, -127, -2, -1, 0, 13, 14, 15, 112, 127}
MCTimes == {-128, -113, -112, -1, 14, 127}    \* both sides of the longest narrow offset

View(width, a, b) == [width |-> width, aval |-> a, bval |-> b]
MCViews ==
  {View(9, <<{0, 7}, {0, 3}>>, <<>>),               \* two-state, with a bit above its width
   View(9, <<{1}, {0}>>, <<{1, 2}, {0}>>),          \* X and Z
   View(3, <<{0, 2, 5}>>, <<>>),                    \* narrower, with a bit above its width
   View(8, <<{4, 5, 6, 7}>>, <<{}>>),               \* one word, with a second plane of zeros
   View(12, <<{1, 6}, {0, 2}>>, <<{}, {2}>>),       \* X only above most streams
   View(16, <<{0, 2, 3, 6}, {1, 7}>>, <<>>),
   View(0, <<>>, <<>>)}
MCStrings == {<<>>, <<5, 6>>, <<7, 0, 1>>}

MCSamples ==
  [kind \in {"NONE", "LOGIC", "REAL", "STRING"} |->
     CASE kind = "NONE"   -> {-1, 127} \X {0}
       [] kind = "LOGIC"  -> {-1, 14} \X MCViews
       [] kind = "REAL"   -> MCTimes \X {129}
       [] kind = "STRING" -> {-1, 127} \X MCStrings]

MCNames == {<<7, 4>>}
MCTails == {<<>>, <<9>>}

MCKept ==
  [kind \in {"NONE", "LOGIC", "REAL", "STRING"} |->
     CASE kind = "NONE"   -> {}
       [] kind = "LOGIC"  -> {<<<<-1, View(16, <<{0, 2, 3, 6}, {1, 7}>>, <<>>)>>,
                                <<14, View(3, <<{0, 2, 5}>>, <<>>)>>>>}
       [] kind = "REAL"   -> {<<<<-113, 129>>, <<14, 129>>>>}
       [] kind = "STRING" -> {<<<<-1, <<5, 6>>>>, <<-1, <<>>>>>>}]
=============================================================================
