---------------------------- MODULE Recognition ----------------------------
(***************************************************************************)
(* From what DeepFace finds in an image to what leaves the service: the    *)
(* filters and the normalisation of FaceDetector, the crop of each         *)
(* reported face (cropper.py) and the answer of POST /match, which is what *)
(* FaceMatcher does too.                                                   *)
(*                                                                         *)
(* The detector reads a file with cv2.imread, which turns the image as its *)
(* EXIF orientation says; the cropper opens it with PIL, which does not.   *)
(* So there are two images: the one of the detector, of photo.width by     *)
(* photo.height pixels, and the one in the file.                           *)
(*                                                                         *)
(* Lengths are pixels; a normalised length is its numerator over the       *)
(* detector's width or height.  The cropper's fractions of a pixel are     *)
(* integers here, in units of 1/Unit pixel: the padding is 15 percent a    *)
(* side.  Its floats may fall just short of an integer, which int() then   *)
(* cuts off.                                                               *)
(*                                                                         *)
(* An embedding is a vector of integers, of which Norm make the length 1.  *)
(***************************************************************************)
EXTENDS Integers, Sequences, FiniteSets, FiniteSetsExt

CONSTANTS
    Photos,         \* images of detection jobs: sizes, orientation and raw faces
    Selfies,        \* images of /match
    Vectors,        \* embeddings that may be stored
    Norm,
    MinScore,       \* settings.detection_threshold
    MinSide,        \* settings.min_face_size_pixels, 0: no filter
    MinSharp,       \* settings.blur_threshold, 0: no filter
    MaxFaces,       \* settings.max_faces_per_photo
    Percent,        \* settings.match_threshold, in percent
    Limit           \* how many matches are asked for

ASSUME RecognitionAssumption ==
    /\ {MinScore, MinSide, MinSharp, MaxFaces} \subseteq Nat
    /\ Percent \in 0..100 /\ Limit \in Nat \ {0} /\ Norm \in Nat \ {0}

RawFaces == [box : Int \X Int \X (Nat \ {0}) \X (Nat \ {0}),
             score : Nat, sharp : Nat, embedding : Int \X Int]

\* The eight orientations: what turns the file's image into the detector's is
\* an exchange of rows and columns, then mirrorings.
Orientations == SUBSET {"swap", "mirror", "flip"}

\* What DeepFace frames has pixels, anywhere; an image has two in each
\* direction (of one, int() might leave none).
ASSUME ImagesAssumption ==
    \A p \in Photos \cup Selfies :
        /\ p.width \in Nat \ {0, 1} /\ p.height \in Nat \ {0, 1}
        /\ p.exif \in Orientations
        /\ p.faces \in Seq(RawFaces)

VARIABLES
    photo,      \* the image
    purpose,    \* "detect" or "match"
    stored,     \* embeddings in the store
    pc,
    seen,       \* how many raw faces the detector has looked at
    results,    \* the faces it reports, then those the job goes on with
    crops,      \* the crop of each, in pixels
    answer      \* the matches of /match

input == <<photo, purpose, stored>>
rvars == <<input, pc, seen, results, crops, answer>>

Clamp(v, top) == Max({0, Min({top, v})})
------------------------------------------------------------------------------
(* FaceDetector._detect_array.  A raw face has a box <<x, y, w, h>>, a     *)
(* score, a sharpness (its Laplacian variance) and an embedding.           *)

\* The part of a span that is in the image: the pixels from the first
\* number up to, not including, the second.
Inside(at, size, top) == <<Max({0, at}), Min({top, at + size})>>

Across(box) == Inside(box[1], box[3], photo.width)
Down(box)   == Inside(box[2], box[4], photo.height)

InImage(box) == Across(box)[1] < Across(box)[2] /\ Down(box)[1] < Down(box)[2]

BigEnough(box) == MinSide > 0 => Max({box[3], box[4]}) > MinSide

\* A region without pixels has no sharpness and is not filtered by it.
SharpEnough(f) == InImage(f.box) /\ MinSharp > 0 => f.sharp >= MinSharp

Accepted(f) == f.score >= MinScore /\ BigEnough(f.box) /\ SharpEnough(f)

NormalisedTransposed(box) ==
    <<Clamp(box[1], photo.width), Clamp(box[2], photo.height),
      Clamp(box[4], photo.width), Clamp(box[3], photo.height)>>

Normalised(box) ==
    <<Clamp(box[1], photo.width), Clamp(box[2], photo.height),
      Clamp(box[3], photo.width), Clamp(box[4], photo.height)>>

Report(f) == [f EXCEPT !.box = Normalised(f.box)]

\* results.sort is stable, by descending confidence.
Before(s, i, j) == s[i].score > s[j].score \/ (s[i].score = s[j].score /\ i < j)

Ranked(s) ==
    [k \in DOMAIN s |->
        s[CHOOSE j \in DOMAIN s : Cardinality({i \in DOMAIN s : Before(s, i, j)}) = k - 1]]
------------------------------------------------------------------------------
(* generate_crop and _calculate_square_crop_coords *)

\* The sizes of the file's image.
FileWidth  == IF "swap" \in photo.exif THEN photo.height ELSE photo.width
FileHeight == IF "swap" \in photo.exif THEN photo.width ELSE photo.height

Grain == photo.width * photo.height
Unit  == 40 * Grain

\* The box that the cropper takes for the face's, in 1/Grain pixels of the
\* file's image.
Scaled(box) ==
    <<box[1] * FileWidth * photo.height, box[2] * FileHeight * photo.width,
      box[3] * FileWidth * photo.height, box[4] * FileHeight * photo.width>>

\* Half of the square's side.
Half(s) == Min({26 * Max({s[3], s[4]}), 20 * Grain * Min({FileWidth, FileHeight})})

\* int() of a float computed to be v.
Truncated(v, top) == {e \in 0..top : Unit * e <= v /\ v <= Unit * (e + 1)}

SpanUnshifted(at, size, half, top) ==
    LET lo == 40 * at + 20 * size - half
        hi == 40 * at + 20 * size + half
    IN  Truncated(Max({0, lo}), top) \X Truncated(Min({Unit * top, hi}), top)

\* One side of the square, centred on the face, shifted into the image.
Span(at, size, half, top) ==
    LET lo == 40 * at + 20 * size - half
        hi == 40 * at + 20 * size + half
    IN  IF lo < 0 THEN {0} \X Truncated(Min({Unit * top, hi - lo}), top)
        ELSE IF hi > Unit * top
        THEN Truncated(Max({0, lo - (hi - Unit * top)}), top) \X {top}
        ELSE Truncated(lo, top) \X Truncated(hi, top)

Crops(box) ==
    LET s == Scaled(box)
    IN  [x : Span(s[1], s[3], Half(s), FileWidth), y : Span(s[2], s[4], Half(s), FileHeight)]

Side(span) == span[2] - span[1]
------------------------------------------------------------------------------
(* similarity_search of the SQLite store: 1 - Euclidean distance.  Of      *)
(* equally good answers any may come first.                                *)

Dot(u, v)  == u[1] * v[1] + u[2] * v[2]
Gap(u, v)  == LET d == <<u[1] - v[1], u[2] - v[2]>> IN Dot(d, d)

DistanceAsSimilarity(u, v) == 10000 * Gap(u, v) >= (Percent * Norm) * (Percent * Norm)

\* 1 - distance >= threshold
Euclidean(u, v) == 10000 * Gap(u, v) <= ((100 - Percent) * Norm) * ((100 - Percent) * Norm)

\* cosine >= threshold
Cosine(u, v) == /\ Dot(u, v) >= 0
                /\ 10000 * Dot(u, v) * Dot(u, v) >= Percent * Percent * Dot(u, u) * Dot(v, v)

Search(u) ==
    LET found == {v \in stored : Euclidean(u, v)}
    IN  {M \in SUBSET found :
            /\ Cardinality(M) = Min({Limit, Cardinality(found)})
            /\ \A m \in M, v \in found \ M : Gap(u, m) <= Gap(u, v)}
------------------------------------------------------------------------------
RInit ==
    /\ \/ purpose = "detect" /\ photo \in Photos /\ stored = {}
       \/ purpose = "match" /\ photo \in Selfies /\ stored \in SUBSET Vectors
    /\ pc = "detect" /\ seen = 0
    /\ results = <<>> /\ crops = <<>> /\ answer = {}

\* One turn of the detector's loop over the raw faces.
Inspect ==
    /\ pc = "detect" /\ seen < Len(photo.faces)
    /\ seen' = seen + 1
    /\ results' = LET f == photo.faces[seen + 1]
                  IN  IF Accepted(f) THEN Append(results, Report(f)) ELSE results
    /\ UNCHANGED <<input, pc, crops, answer>>

\* The detector returns; a detection job keeps the first MaxFaces.
Rank ==
    /\ pc = "detect" /\ seen = Len(photo.faces)
    /\ results' = LET r == Ranked(results)
                  IN  IF purpose = "match" THEN r ELSE SubSeq(r, 1, Min({Len(r), MaxFaces}))
    /\ pc' = IF purpose = "match" THEN "match" ELSE "crop"
    /\ UNCHANGED <<input, seen, crops, answer>>

\* generate_crop for the next face of a detection job.
Crop ==
    /\ pc = "crop" /\ Len(crops) < Len(results)
    /\ \E c \in Crops(results[Len(crops) + 1].box) : crops' = Append(crops, c)
    /\ UNCHANGED <<input, pc, seen, results, answer>>

\* POST /match: the most confident face, or 422.
Match ==
    /\ pc = "match"
    /\ IF results = <<>> THEN pc' = "refused" /\ UNCHANGED answer
       ELSE pc' = "matched" /\ answer' \in Search(results[1].embedding)
    /\ UNCHANGED <<input, seen, results, crops>>

RNext == Inspect \/ Rank \/ Crop \/ Match
RSpec == RInit /\ [][RNext]_rvars
------------------------------------------------------------------------------
(* A reported box frames all of the face that is in the image.  A box that *)
(* sticks out is moved, not cut: its width stays, so that on the left and  *)
(* at the top it frames more than the face.  And it is in the bounds that  *)
(* the fields of FaceResult have: one face that is not would make the      *)
(* whole callback fail.                                                    *)
Frames(box, raw) ==
    /\ {box[1], box[3]} \subseteq 0..photo.width
    /\ {box[2], box[4]} \subseteq 0..photo.height
    /\ box[1] <= Across(raw)[1] /\ Across(raw)[2] <= box[1] + box[3]
    /\ box[2] <= Down(raw)[1] /\ Down(raw)[2] <= box[2] + box[4]

BoxFramesFace ==
    \A i \in DOMAIN results :
        \E j \in 1..seen :
            /\ Accepted(photo.faces[j])
            /\ results[i].embedding = photo.faces[j].embedding
            /\ Frames(results[i].box, photo.faces[j].box)

(* A crop has pixels, all of them of the file's image, and is square up to *)
(* the rounding of its four edges: _pad_to_square adds a pixel or two,     *)
(* never a band, and the resize to 150 x 150 does not distort the face.    *)
SquareInImage(c) ==
    /\ 0 <= c.x[1] /\ c.x[1] < c.x[2] /\ c.x[2] <= FileWidth
    /\ 0 <= c.y[1] /\ c.y[1] < c.y[2] /\ c.y[2] <= FileHeight
    /\ Side(c.x) - Side(c.y) \in -2..2

(* The crop shows the face it is sent with, wherever the box lies and      *)
(* sticks out: all of what DeepFace framed that is in the image, up to a   *)
(* row or column lost by rounding.  Only a face longer than the short side *)
(* of the image does not fit a square.                                     *)
Shows(c, raw) ==
    Max({raw[3], raw[4]}) <= Min({photo.width, photo.height}) =>
        /\ c.x[1] <= Across(raw)[1] /\ Across(raw)[2] - 1 <= c.x[2]
        /\ c.y[1] <= Down(raw)[1] /\ Down(raw)[2] - 1 <= c.y[2]

(* Of every file the crops are square and in the image; where the EXIF     *)
(* orientation is the plain one, each shows its face.                      *)
CropShowsFace ==
    \A i \in DOMAIN crops :
        /\ SquareInImage(crops[i])
        /\ \E j \in DOMAIN photo.faces :
               /\ Report(photo.faces[j]) = results[i]
               /\ photo.exif = {} => Shows(crops[i], photo.faces[j].box)

(* A match is a match: match_threshold is a bound on the cosine, and what  *)
(* the vec0 search finds with its Euclidean distance is within that bound  *)
(* for embeddings that are not shorter than 1.  The converse fails: faces  *)
(* within the bound are missed.                                            *)
MatchesAreCosineMatches ==
    \A v \in answer : Cosine(results[1].embedding, v)
------------------------------------------------------------------------------
(* What the properties rest on                                             *)

ReportedFaces == [box : Int \X Int \X Int \X Int,
                  score : Nat, sharp : Nat, embedding : Int \X Int]
Squares == [x : Int \X Int, y : Int \X Int]

(* No embedding is shorter than 1.                                         *)
NotShort ==
    /\ \A v \in Vectors : v \in Int \X Int /\ Dot(v, v) >= Norm * Norm
    /\ \A p \in Selfies : \A j \in DOMAIN p.faces :
           Dot(p.faces[j].embedding, p.faces[j].embedding) >= Norm * Norm

(* The reported faces are faces of the image that passed the filters; the  *)
(* crops are theirs, in their order; and what /match answers was found     *)
(* around the first of them, in a selfie.                                  *)
RecognitionInv ==
    /\ photo \in Photos \cup Selfies /\ stored \subseteq Vectors
    /\ seen \in 0..Len(photo.faces)
    /\ results \in Seq(ReportedFaces)
    /\ \A i \in DOMAIN results :
          \E j \in 1..seen : Accepted(photo.faces[j]) /\ results[i] = Report(photo.faces[j])
    /\ crops \in Seq(Squares) /\ Len(crops) <= Len(results)
    /\ \A i \in DOMAIN crops : crops[i] \in Crops(results[i].box)
    /\ \A v \in answer : v \in stored /\ Euclidean(results[1].embedding, v)
    /\ answer # {} => purpose = "match" /\ results # <<>>
    /\ purpose = "match" => photo \in Selfies
    /\ pc = "match" => purpose = "match"
    /\ pc = "detect" => crops = <<>> /\ answer = {}
==============================================================================
