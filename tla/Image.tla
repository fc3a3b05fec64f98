------------------------------- MODULE Image -------------------------------
(***************************************************************************)
(* From gathered samples to the pixels of a product: push_sample,          *)
(* to_finufft_coords, run_finufft_dirty with the mode order of FINUFFT,    *)
(* the normalised PSF and the reference pixel of the FITS header.  One     *)
(* point source of unit flux is observed, so a sample is a phase.          *)
(*                                                                         *)
(* Phases are exact: they are counted in units of 1/Turn of a turn, where  *)
(* Turn is 4 or 6, for which twice a cosine is an integer.  u and v are    *)
(* counted in units of 1/(Turn * cell size), offsets on the sky in cells.  *)
(***************************************************************************)
EXTENDS RobustStats, FiniteSetsExt, Sums

CONSTANTS
  Sizes,       \* possible NPIX, the side of the image
  NFine,       \* the side of FINUFFT's fine grid
  Turn,        \* units of phase in a turn
  Coords,      \* values of u and of v
  Sources,     \* places of the source, [l, m]
  MaxSamples   \* bound on the samples gathered

ASSUME ImageAssumption ==
  /\ Sizes \subseteq Nat \ {0} /\ NFine \in Nat /\ \A n \in Sizes : NFine >= n
  /\ Turn \in {4, 6}
  /\ Coords \subseteq Int /\ MaxSamples \in Nat
  /\ \A s \in Sources : s.l \in Int /\ s.m \in Int

VARIABLES
  npix,           \* Config::npix
  src,            \* where the source is; the code does not know
  dirty_samples,  \* the bag, a sequence of [u, v, phase]; all weights are 1
  psf_samples,    \* its twin
  stage,          \* what run_pipeline has done last
  dirtyImg,       \* twice sumw times the dirty image, in raster order
  psfImg          \* the same of the PSF, not yet normalised

imageVars == <<npix, src, dirty_samples, psf_samples, stage, dirtyImg, psfImg>>

Axis == 0..(npix - 1)
Raster == 0..(npix * npix - 1)

\* Place of a pixel in the buffer that FINUFFT fills, CLEAN reads and
\* fits_write_img writes: x runs fast.
Idx(ix, iy) == iy * npix + ix

TwiceCos(phase) ==
  IF Turn = 4 THEN <<2, 0, -2, 0>>[(phase % 4) + 1]
              ELSE <<2, 1, -1, -2, -1, 1>>[(phase % 6) + 1]

\* What an interferometer measures of the source; no part of the code.
Visibility(u, v) == (-(u * src.l + v * src.m)) % Turn

ImageInit ==
  /\ npix \in Sizes
  /\ src \in Sources
  /\ dirty_samples = <<>> /\ psf_samples = <<>>
  /\ stage = "gather"
  /\ dirtyImg = [p \in Raster |-> 0] /\ psfImg = [p \in Raster |-> 0]

\* A finite sample of positive weight and its psf twin with the value (1, 0).
PushSample(u, v) ==
  /\ stage = "gather" /\ Len(dirty_samples) < MaxSamples
  /\ dirty_samples' = Append(dirty_samples, [u |-> u, v |-> v, phase |-> Visibility(u, v)])
  /\ psf_samples' = Append(psf_samples, [u |-> u, v |-> v, phase |-> 0])
  /\ UNCHANGED <<npix, src, stage, dirtyImg, psfImg>>

\* std::fmod: the result has the sign of the dividend.
Fmod(a, b) == IF a >= 0 THEN a % b ELSE -((-a) % b)

\* Variant: what fmod left below zero is not brought up.
WrapUnfixed(x) == Fmod(x + Turn \div 2, Turn) - Turn \div 2

\* Into [-pi, pi).
Wrap(x) ==
  LET r == Fmod(x + Turn \div 2, Turn)
  IN  (IF r < 0 THEN r + Turn ELSE r) - Turn \div 2

\* Variant: u keeps its sign, as v does.
SameSense(s) == [s EXCEPT !.u = Wrap(@), !.v = Wrap(@)]

Placed(s) == [s EXCEPT !.u = Wrap(-@), !.v = Wrap(@)]

\* Variant: only the dirty samples are converted.
DirtyToCoords ==
  /\ stage = "gather" /\ stage' = "coords"
  /\ dirty_samples' = [i \in DOMAIN dirty_samples |-> Placed(dirty_samples[i])]
  /\ UNCHANGED <<npix, src, psf_samples, dirtyImg, psfImg>>

ToFinufftCoords ==
  /\ stage = "gather" /\ stage' = "coords"
  /\ dirty_samples' = [i \in DOMAIN dirty_samples |-> Placed(dirty_samples[i])]
  /\ psf_samples' = [i \in DOMAIN psf_samples |-> Placed(psf_samples[i])]
  /\ UNCHANGED <<npix, src, dirtyImg, psfImg>>

----------------------------------------------------------------------------
\* finufft2d1 with isign = +1: the sum of c exp(+i (kx x + ky y)).

\* The frequency an FFT leaves at place q of the fine grid.
Frequency(q) == IF 2 * q < NFine THEN q ELSE q - NFine

Fine(bag, qx, qy) ==
  Total([i \in DOMAIN bag |-> TwiceCos(bag[i].phase + Frequency(qx) * bag[i].u
                                                   + Frequency(qy) * bag[i].v)])

KMin == -(npix \div 2)
KMax == (npix - 1) \div 2

\* Variant: FFT order (modeord = 1), frequency zero first.
FftPlace(p) == IF p <= KMax THEN p ELSE NFine + KMin + p - (KMax + 1)

\* CMCL order (modeord = 0): the place on the fine grid that output p is
\* read from; non-negative frequencies start at output -KMin.
ModePlace(p) == IF p >= -KMin THEN p + KMin ELSE NFine + KMin + p

\* deconvolveshuffle2d, row by row, and the real part.
Shuffled(bag) ==
  [p \in Raster |-> Fine(bag, ModePlace(p % npix), ModePlace(p \div npix))]

\* run_finufft_dirty for the two bags; without a sample the run ends.
RunFinufftDirty ==
  /\ stage = "coords"
  /\ IF dirty_samples = <<>>
       THEN stage' = "failed" /\ UNCHANGED <<dirtyImg, psfImg>>
       ELSE /\ stage' = "imaged"
            /\ dirtyImg' = Shuffled(dirty_samples)
            /\ psfImg' = Shuffled(psf_samples)
  /\ UNCHANGED <<npix, src, dirty_samples, psf_samples>>

ImageNext ==
  \/ \E u \in Coords, v \in Coords : PushSample(u, v)
  \/ ToFinufftCoords
  \/ RunFinufftDirty

ImageSpec == ImageInit /\ [][ImageNext]_imageVars

----------------------------------------------------------------------------
\* The value that divides the PSF: its largest magnitude.
PsfPeak == Max({Abs(psfImg[p]) : p \in Raster})

\* Where hogbom_clean and the beam fit take the centre of the PSF to be.
PsfCentre == npix \div 2

\* Twice CRPIX1 and CRPIX2: n / 2.0 + 1.0, counted from 1.
CrPixTwice == npix + 2

\* Twice the place on the sky that the header gives to a pixel: CDELT1 < 0.
SkyTwice(ix, iy) ==
  [l |-> -(2 * (ix + 1) - CrPixTwice), m |-> 2 * (iy + 1) - CrPixTwice]

\* The field of the modes, half a pixel wider than their places.
InField ==
  /\ -npix < 2 * src.l /\ 2 * src.l <= npix
  /\ -npix <= 2 * src.m /\ 2 * src.m < npix

\* Twice how far an odd image puts a source from its place.
OddShift == npix % 2

(* The source is where the header says: for an even size a pixel with the  *)
(* source's place, for an odd one the pixel half a cell off it on both     *)
(* axes and to a fixed side, has the full flux, and no pixel has more.  It *)
(* takes the sign of u, the wrapping of long baselines, the sense of the   *)
(* transform, the order of the modes and the reference pixel to agree      *)
(* (grid.cpp, execute.hpp, fits_out.cpp).                                  *)
SkyMatchesWcs ==
  stage = "imaged" =>
    /\ InField =>
         \E ix \in Axis, iy \in Axis :
           /\ SkyTwice(ix, iy) = [l |-> 2 * src.l + OddShift, m |-> 2 * src.m - OddShift]
           /\ dirtyImg[Idx(ix, iy)] = 2 * Len(dirty_samples)
    /\ \A p \in Raster : dirtyImg[p] <= 2 * Len(dirty_samples)

(* What hogbom_clean requires of the PSF: its peak is at (n1/2, n2/2), is  *)
(* positive, and is what the PSF was divided by.                           *)
PsfCentred ==
  stage = "imaged" =>
    psfImg[Idx(PsfCentre, PsfCentre)] = PsfPeak /\ PsfPeak > 0

(* What CLEAN relies on: the dirty image of a source is the PSF moved from *)
(* its centre to the source, wherever the moved PSF is inside the image,   *)
(* for an odd NPIX too.                                                    *)
DirtyIsMovedPsf ==
  stage = "imaged" =>
    \A ix \in Axis, iy \in Axis :
      LET sx == ix + src.l
          sy == iy - src.m
      IN  sx \in Axis /\ sy \in Axis => dirtyImg[Idx(ix, iy)] = psfImg[Idx(sx, sy)]

(* What to_finufft_coords promises FINUFFT: the points lie in [-pi, pi),   *)
(* however long the baseline and whatever its sign (grid.cpp:119), in both *)
(* bags.                                                                   *)
PointsInRange ==
  stage \in {"coords", "imaged"} =>
    LET half == Turn \div 2
        range == (-half)..(half - 1)
    IN  \A bag \in {dirty_samples, psf_samples} :
          \A k \in DOMAIN bag : bag[k].u \in range /\ bag[k].v \in range
=============================================================================
