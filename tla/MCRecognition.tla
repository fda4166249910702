--------------------------- MODULE MCRecognition ---------------------------
(* Images of 2 to 5 pixels a side with one face anywhere, sticking out or  *)
(* not, in files of the plain orientation and turned ones; one image with  *)
(* up to three faces of different merits; selfies with one face anywhere   *)
(* near a store of up to five embeddings.                                  *)
EXTENDS Recognition

Face(box, score, sharp, embedding) ==
    [box |-> box, score |-> score, sharp |-> sharp, embedding |-> embedding]
Turned(width, height, exif, faces) ==
    [width |-> width, height |-> height, exif |-> exif, faces |-> faces]
Image(width, height, faces) == Turned(width, height, {}, faces)

One(w, h, exif) ==
    {Turned(w, h, exif, <<Face(<<x, y, fw, fh>>, 2, 2, <<0, 2>>)>>) :
        x \in -2..(w - 1), y \in -2..(h - 1), fw \in 1..(w + 1), fh \in 1..(h + 1)}

\* The cropper sees nothing of an orientation but whether it swaps.
Alone == UNION {One(w, h, {}) : w \in 2..5, h \in 2..5}
         \cup UNION {One(w, h, {"swap"}) : w \in 2..4, h \in 2..4}

Any == {Face(b, score, sharp, <<0, 2>>) :
            b \in {<<1, 1, 2, 2>>, <<-1, 0, 2, 3>>, <<2, 2, 1, 1>>, <<4, 4, 2, 2>>},
            score \in 0..2, sharp \in {0, 2}}
Crowd == {Image(4, 4, f) : f \in {<<>>} \cup [1..2 -> Any]}
         \cup {Image(4, 4, f) :
                  f \in [1..3 -> {a \in Any : a.box = <<1, 1, 2, 2>> /\ a.score > 0}]}

MCPhotos == Alone \cup Crowd

Plane == {<<x, y>> : x \in -2..3, y \in 0..3}
MCSelfies == {Image(4, 4, <<>>)} \cup
    {Image(4, 4, <<Face(<<1, 1, 2, 2>>, 1, 2, <<0, 3>>), Face(<<1, 0, 3, 3>>, 2, 2, v)>>) :
        v \in {u \in Plane : Dot(u, u) >= Norm * Norm}}
MCVectors == {<<0, 2>>, <<2, 0>>, <<1, 2>>, <<3, 1>>, <<-2, 1>>}

\* What MatchesAreRight supposes of the embeddings is true of these.
ASSUME MCNotShort == NotShort
==============================================================================
