------------------------------ MODULE Spectrum ------------------------------
(***************************************************************************)
(* What the analysers fft.c and fft_cpu.c draw in a frame: HOP new samples  *)
(* go into a ring, the last NFFT of them are transformed, and each bin gives *)
(* a bar, a point of the trace and a mark that holds the peak.  A sample is  *)
(* its number, modulo Numbers, and a level is a row counted from the bottom. *)
(* fft_cpu.c draws into rows and columns of a buffer itself.                *)
(***************************************************************************)
EXTENDS Integers, FiniteSets

CONSTANTS
  NFFT, HOP, \* samples in a window, and new ones in a frame
  NBIN,      \* bins shown
  W,         \* columns of the screen
  RampRows,  \* rows in ramp_lut
  Numbers    \* bound: numbers of samples start again here

ASSUME SpectrumAssumption ==
  /\ {NFFT, NBIN, RampRows} \subseteq Nat \ {0} /\ HOP \in 1 .. NFFT
  /\ W \in Nat /\ W > 1 /\ Numbers \in Nat /\ Numbers > NFFT

Bins == 0 .. NBIN - 1
Columns == 0 .. W - 1
Silence == Numbers \* what the ring holds before the first samples

signal_init == [ring |-> [i \in 0 .. NFFT - 1 |-> Silence], head |-> 0, n |-> 0]

gen_samples(s) ==
  [ring |-> [i \in 0 .. NFFT - 1 |-> LET k == (i - s.head) % NFFT
                                     IN IF k < HOP THEN (s.n + k) % Numbers ELSE s.ring[i]],
   head |-> (s.head + HOP) % NFFT,
   n |-> (s.n + HOP) % Numbers]

\* Wrong variant: the window starts with the newest sample.
Window_newest_first(s) == [j \in 0 .. NFFT - 1 |-> s.ring[(s.head + j - 1) % NFFT]]

Window(s) == [j \in 0 .. NFFT - 1 |-> s.ring[(s.head + j) % NFFT]]

(* DB_MIN is the bottom row and DB_MAX the top one.                         *)
Clamped(raw, rows) == IF raw < 0 THEN 0 ELSE IF raw > rows - 1 THEN rows - 1 ELSE raw

(* The bin a column shows; the mark of a bin sinks at each of its columns.  *)
BinOf(x) == (x * (NBIN - 1)) \div (W - 1)
ColumnsOf(bin, upto) == Cardinality({x \in Columns : BinOf(x) = bin /\ x <= upto})

Sunk(p, times, level) == IF level > p - times THEN level ELSE p - times

(* peak_db after a frame: fft.c goes through the bins, fft_cpu.c through    *)
(* the columns.                                                             *)
Peaks_fft(peak, level) == [b \in Bins |-> Sunk(peak[b], 1, level[b])]
Peaks_fft_cpu(peak, level) ==
  [b \in Bins |-> IF ColumnsOf(b, W - 1) = 0 THEN peak[b] ELSE Sunk(peak[b], ColumnsOf(b, W - 1), level[b])]

(* The rows draw() of fft_cpu.c writes in a column, row 0 at the top: the   *)
(* bar, which is not cut to the screen, and the mark.  The lines of the     *)
(* trace run between the tops of two bars.                                  *)
Row(level, rows) == rows - 1 - level
Bar(x, level, rows) == Row(level[BinOf(x)], rows) .. rows - 1
Mark(x, peak, level, rows) == Row(Sunk(peak[BinOf(x)], ColumnsOf(BinOf(x), x), level[BinOf(x)]), rows)

(* Every row is one of the screen and has a colour, and a mark is never     *)
(* below the top of its bar.                                                *)
Inside(peak, level, rows) ==
  \A x \in Columns :
    /\ Bar(x, level, rows) \subseteq 0 .. rows - 1 /\ Bar(x, level, rows) \subseteq 0 .. RampRows - 1
    /\ Mark(x, peak, level, rows) \in 0 .. Row(level[BinOf(x)], rows)

(* The last of NFFT samples is the newest, and each follows the one before. *)
InOrder(window, n) ==
  /\ window[NFFT - 1] = (n - 1) % Numbers
  /\ \A j \in 1 .. NFFT - 1 :
       \/ window[j - 1] = Silence
       \/ window[j] # Silence /\ window[j] = (window[j - 1] + 1) % Numbers
=============================================================================
