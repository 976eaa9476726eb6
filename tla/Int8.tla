-------------------------------- MODULE Int8 --------------------------------
(***************************************************************************)
(* quant/int8.py: symmetric rounding of a row of weights to codes, and the *)
(* tiles by which the fused kernel reads the codes.                        *)
(*                                                                         *)
(* Weights are whole numbers, so the scale amax / QMax and the rounding of *)
(* a weight by it are exact fractions; the code has QMax = 127.            *)
(***************************************************************************)
EXTENDS Integers, FiniteSetsExt

CONSTANT QMax

ASSUME Int8Assumption == QMax \in Nat \ {0}

Abs(n) == IF n < 0 THEN -n ELSE n

\* A bug to catch: a conversion to int8 without round() cuts off.
TruncatedQuotient(n, d) == IF n < 0 THEN -((-n) \div d) ELSE n \div d

\* torch.round of n / d, d > 0: to the nearest, halves to the even one.
Rounded(n, d) ==
    LET floor == n \div d
        twice == 2 * (n % d)
    IN  IF twice < d \/ (twice = d /\ floor % 2 = 0) THEN floor ELSE floor + 1

AMax(w) == Max({ Abs(w[i]) : i \in DOMAIN w })

\* clamp(min=1e-8) of the scale matters for rows with amax < 1.27e-6: of whole
\* numbers that is the row of zeros, whose codes are 0; tiny floats are left out.
QuantizePerChannel(w) ==
    [i \in DOMAIN w |->
       IF AMax(w) = 0 THEN 0
       ELSE Max({-QMax, Min({QMax, Rounded(w[i] * QMax, AMax(w))})})]

\* weight_q * scale, in units of 1 / QMax.
DequantizePerChannel(w) == [i \in DOMAIN w |-> QuantizePerChannel(w)[i] * AMax(w)]

(***************************************************************************)
(* No weight moves by more than half a step of its row's scale, whatever   *)
(* the sign, the ties and the dead rows; the largest one does not move at  *)
(* all, and order is kept.                                                 *)
(***************************************************************************)
WithinHalfStep(w) ==
    LET back == DequantizePerChannel(w)
    IN  \A i \in DOMAIN w :
          /\ 2 * Abs(back[i] - w[i] * QMax) <= AMax(w)
          /\ Abs(w[i]) = AMax(w) => back[i] = w[i] * QMax
          /\ \A j \in DOMAIN w : w[i] <= w[j] => back[i] <= back[j]

-----------------------------------------------------------------------------
(* The kernel for one row of x.  A shape g has n_out, K, and the tile      *)
(* sizes BLOCK_O and BLOCK_K; weight_q is a flat array, row after row.     *)

CDiv(n, d) == (n + d - 1) \div d

\* One program for each block of outputs; its lanes behind n_out store nothing.
OBlocks(g) == 0 .. CDiv(g.n_out, g.BLOCK_O) - 1
Stores(g) ==
    { s \in [o_block : OBlocks(g), lane : 0 .. g.BLOCK_O - 1] :
        s.o_block * g.BLOCK_O + s.lane < g.n_out }

\* range(0, K, BLOCK_K)
KStarts(g) == { k0 \in 0 .. g.K - 1 : k0 % g.BLOCK_K = 0 }

\* A bug to catch: the mask of the inner dimension is left out.
KMaskAll(g, k) == TRUE

KMask(g, k) == k < g.K

\* What is multiplied and added for output o: where in weight_q, where in x.
Products(g, o) ==
    { [k0 |-> t[1], lane |-> t[2], w |-> o * g.K + t[1] + t[2], x |-> t[1] + t[2]] :
        t \in { u \in KStarts(g) \X (0 .. g.BLOCK_K - 1) : KMask(g, u[1] + u[2]) } }

(***************************************************************************)
(* Whatever tile sizes divide the shape or not, every output is stored by  *)
(* one lane of one program, and is the sum of the products of its own row  *)
(* with x, each exactly once: what QuantizedLinear.forward computes.       *)
(***************************************************************************)
GemvIsLinear(g) ==
    \A o \in 0 .. g.n_out - 1 :
      /\ Cardinality({ s \in Stores(g) : s.o_block * g.BLOCK_O + s.lane = o }) = 1
      /\ Cardinality(Products(g, o)) = g.K
      /\ { <<t.w, t.x>> : t \in Products(g, o) } = { <<o * g.K + k, k>> : k \in 0 .. g.K - 1 }
=============================================================================
