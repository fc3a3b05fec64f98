------------------------------- MODULE Clean -------------------------------
(***************************************************************************)
(* hogbom_clean (clean.cpp) and the model image of pipeline.cpp: the peak  *)
(* of the residual is found, a fraction of it recorded as a component, and *)
(* the point-spread function, shifted to the peak and cut at the edges of  *)
(* the image, subtracted, until the peak is under the noise floor or the   *)
(* iterations are used up.                                                 *)
(*                                                                         *)
(* Pixels are integers.  With k iterations left they are multiples of      *)
(* Grain[k], and one more is worth a factor of Unit^2, so that the gain    *)
(* 1/Unit and PSF values in units of 1/Unit stay exact: component and      *)
(* subtraction divide without remainder.                                   *)
(***************************************************************************)
EXTENDS RobustStats, Sums

CONSTANTS
  N1, N2,      \* image size
  Unit,        \* gain is 1/Unit, PSF values are multiples of 1/Unit
  NIter,       \* CleanParams::niter
  Grain,       \* [0..NIter -> Nat]
  Images,      \* dirty images, in units of flux
  Psfs,        \* point-spread functions, times Unit
  Thresholds   \* CleanParams::threshold_sigma * 1.4826, as integers

X == 0..(N1 - 1)
Y == 0..(N2 - 1)
Pixels == X \X Y

\* Pixel value of one unit of flux.
Scale == Grain[NIter]

ASSUME CleanAssumption ==
  /\ N1 \in Nat \ {0} /\ N2 \in Nat \ {0} /\ NIter \in Nat
  /\ Unit \in Nat \ {0} /\ Grain \in [0..NIter -> Nat \ {0}]
  /\ \A k \in 1..NIter : Grain[k] = Unit * (Unit * Grain[k - 1])
  /\ \A d \in Images : d \in [Pixels -> Int]
  /\ \A p \in Psfs : p \in [Pixels -> Int]
  /\ Thresholds \subseteq Nat

VARIABLES
  dirty, psf, thr,  \* the inputs
  residual,
  components,       \* sequence of [at |-> pixel, flux |-> Int]
  it, pc            \* iteration; "iterate" or "done"

vars == <<dirty, psf, thr, residual, components, it, pc>>

\* Position of a pixel in the row-major buffer.
Index(p) == p[2] * N1 + p[1]

Centre == <<N1 \div 2, N2 \div 2>>

\* The median of mad_sigma: the upper one of the two for an even count.
UpperMedian(f) == OrderStat(f, Cardinality(DOMAIN f) \div 2)

\* The flux floor: a multiple of the dirty image's median absolute deviation.
Floor ==
  LET m == UpperMedian(dirty)
  IN  thr * UpperMedian([p \in Pixels |-> Abs(dirty[p] - m)])

Init ==
  /\ \E d \in Images : dirty = [p \in Pixels |-> Scale * d[p]]
  /\ psf \in Psfs /\ thr \in Thresholds
  /\ residual = dirty
  /\ components = <<>>
  /\ it = 0 /\ pc = "iterate"

\* Variant: the peak is the largest value, not the largest magnitude.
PositivePeak(f) ==
  CHOOSE p \in Pixels : \A q \in Pixels :
    f[p] > f[q] \/ (f[p] = f[q] /\ Index(p) <= Index(q))

\* The first pixel, in buffer order, of the largest magnitude.
Peak(f) ==
  CHOOSE p \in Pixels : \A q \in Pixels :
    Abs(f[p]) > Abs(f[q]) \/ (Abs(f[p]) = Abs(f[q]) /\ Index(p) <= Index(q))

\* The PSF pixel that falls on p when its centre lands on at.
Shifted(p, at) == <<p[1] - at[1] + Centre[1], p[2] - at[2] + Centre[2]>>

\* Variant: the PSF wraps around the image.
Wrapped(p, at) ==
  LET s == Shifted(p, at) IN psf[<<s[1] % N1, s[2] % N2>>]

\* Its value there, zero beyond the edges.
Response(p, at) ==
  LET s == Shifted(p, at) IN IF s \in Pixels THEN psf[s] ELSE 0

\* The stop test.
Low(v) == v < Floor

\* The flux of a component.
Gained(v) == v \div Unit

\* The condition of the loop.
MayIterate == it < NIter

\* One iteration.
Iterate ==
  /\ pc = "iterate"
  /\ MayIterate
  /\ LET at == Peak(residual)
         comp == Gained(residual[at])
     IN  /\ ~Low(Abs(residual[at]))
         /\ components' = Append(components, [at |-> at, flux |-> comp])
         /\ residual' = [p \in Pixels |->
                           residual[p] - (comp * Response(p, at)) \div Unit]
  /\ it' = it + 1
  /\ UNCHANGED <<dirty, psf, thr, pc>>

\* Iterations used up, or the peak is under the floor.
Stop ==
  /\ pc = "iterate"
  /\ ~MayIterate \/ Low(Abs(residual[Peak(residual)]))
  /\ pc' = "done"
  /\ UNCHANGED <<dirty, psf, thr, residual, components, it>>

Next == Iterate \/ Stop

Spec == Init /\ [][Next]_vars

\* The model image: the components' fluxes added up per pixel.
model ==
  LET F[k \in 0..Len(components)] ==
        IF k = 0 THEN [p \in Pixels |-> 0]
        ELSE [F[k - 1] EXCEPT ![components[k].at] = @ + components[k].flux]
  IN  F[Len(components)]

-----------------------------------------------------------------------------
(* Properties *)

\* Types; every component lies in the image.
TypeOK ==
  /\ residual \in [Pixels -> Int]
  /\ \A k \in DOMAIN components :
       components[k].at \in Pixels /\ components[k].flux \in Int
  /\ Len(components) = it /\ it \in 0..NIter
  /\ pc \in {"iterate", "done"}

\* PSF value at an offset from its centre.
At(dx, dy) ==
  LET s == <<dx + Centre[1], dy + Centre[2]>> IN IF s \in Pixels THEN psf[s] ELSE 0

\* Nothing is lost or made up: the dirty image is the residual plus the model
\* image convolved with the PSF, at every pixel and after every iteration,
\* although components come back to the same pixels.
Conserved ==
  \A p \in Pixels :
    Unit * (dirty[p] - residual[p]) =
      Total([q \in Pixels |-> model[q] * At(p[1] - q[1], p[2] - q[2])])

\* An iteration always brings the pixel it works on down.
PeakReduced ==
  [][it' = it + 1 =>
       LET at == components'[it'].at
       IN  /\ \A p \in Pixels : Abs(residual[p]) <= Abs(residual[at])
           /\ residual[at] # 0 => Abs(residual'[at]) < Abs(residual[at])]_vars
=============================================================================
