------------------------------ MODULE Display ------------------------------
(***************************************************************************)
(* The numbers that the window shows: of a torrent file, in the labels of  *)
(* PreviewTorrentDialog, and of a running torrent, in TorrentStateWidget,  *)
(* which asks the torrent once a second how fast it is and what is left.   *)
(* PrettyPrint chooses the units.                                          *)
(***************************************************************************)
EXTENDS Integers, Sequences, SequencesExt, FiniteSetsExt

CONSTANTS
    Kilo,       \* 1024
    IntWidth,   \* bits of an int and of an unsigned int, 32
    SizeWidth,  \* and of a size_t, 64
    KeptRates,  \* how many seconds an average goes back, 30
    KeptTimes   \* and how many estimates, 15

ASSUME DisplayAssumption ==
    /\ {Kilo, IntWidth, SizeWidth, KeptRates} \subseteq Nat \ {0} /\ KeptTimes \in Nat
    /\ Kilo > 1 /\ KeptTimes > 2 /\ SizeWidth > IntWidth + KeptTimes

Low(n, bits)    == n % 2^bits
AsInt(n)        == Low(n + 2^(IntWidth - 1), IntWidth) - 2^(IntWidth - 1)
AsSize(n)       == Low(n, SizeWidth)
SumOf(numbers)  == FoldLeft(LAMBDA sum, n : sum + n, 0, numbers)
Unknown == -1

----------------------------------------------------------------------------
\* PrettyPrint.

Units == <<"KB", "MB", "GB">>
UnitSize(unit) == Kilo^(CHOOSE n \in 1..3 : Units[n] = unit)

\* Of the number only the part before the point.
Represent(size) ==
    LET unit == IF size >= UnitSize("GB") THEN "GB"
                ELSE IF size >= UnitSize("MB") THEN "MB" ELSE "KB"
    IN  [number |-> size \div UnitSize(unit), unit |-> unit]

\* printSpeed takes an int.
PrintSpeed(rate) == IF AsInt(rate) < 0 THEN Unknown ELSE Represent(AsInt(rate))

\* printRemainingTime.
PrintRemainingTime(seconds) ==
    CASE seconds >= 86400 ->
            <<seconds \div 86400, (seconds % 86400) \div 3600, (seconds % 3600) \div 60>>
      [] seconds \in 3600..86399 -> <<0, seconds \div 3600, (seconds % 3600) \div 60>>
      [] seconds \in 60..3599    -> <<0, 0, seconds \div 60>>
      [] seconds \in 10..59      -> "less than a minute"
      [] seconds \in 0..9        -> "few seconds"
      [] seconds < 0             -> "unknown time"

----------------------------------------------------------------------------
\* TorrentStateWidget.

NewWidget == [rates |-> <<>>, times |-> <<>>, remaining |-> Unknown]

\* What RateAccumulator was given by the reads of a second; CommandTask::execute takes
\* it and starts anew.
DownloadRate(reads) == SumOf(reads)

\* The rates of the last seconds, the newest first.
Added(rates, rate) ==
    <<rate>> \o SubSeq(rates, 1, Min({Len(rates), KeptRates - 1}))

\* calculateAverageDownloadRate: the sum is an int.
Average(rates) == AsSize(AsInt(SumOf(rates))) \div Len(rates)

\* A download that stands still is written down as -Kilo seconds.
Estimate(count, size, rate) ==
    IF rate = 0 THEN -Kilo ELSE Low(count * size, IntWidth) \div rate

\* Up to the full minute when little is missing.
RoundedUp(eta) == IF eta >= 60 /\ eta % 60 >= 50 THEN eta + (60 - (eta % 60)) ELSE eta

\* The mean of the estimates, of which the sum is an int and the quotient has no sign.
MeanTime(times) == RoundedUp(AsSize(AsInt(SumOf(times))) \div Len(times))

\* calculateRemainingDownloadTime.
Remaining(rates, times) ==
    IF Len(times) < KeptTimes THEN [rates |-> rates, times |-> times, remaining |-> Unknown]
    ELSE [rates |-> rates, times |-> Tail(times), remaining |-> AsInt(MeanTime(Tail(times)))]

\* A second in which so much was read and after which so many pieces are scheduled.
Second(widget, reads, count, size) ==
    LET rates == Added(widget.rates, DownloadRate(reads))
    IN  Remaining(rates, Append(widget.times, Estimate(count, size, Average(rates))))

\* The size that updateDisplay calls the size of the download, of which the last piece
\* may be the shorter one; pieces are 1..count.
OverallSize(scheduled, available, count, size, total) ==
    Low((Cardinality(scheduled) + Cardinality(available)) * size, IntWidth)
        - (IF count \in scheduled /\ total % size # 0 THEN size - (total % size) ELSE 0)

\* updateDisplay.
UpdateDisplay(widget, reads, scheduled, available, count, size, total) ==
    IF scheduled = {}
    THEN [widget |-> widget, complete |-> TRUE, size |-> Represent(Cardinality(available) * size)]
    ELSE [widget   |-> Second(widget, reads, Cardinality(scheduled), size),
          complete |-> FALSE,
          size     |-> Represent(OverallSize(scheduled, available, count, size, total)),
          speed    |-> PrintSpeed(DownloadRate(reads))]

----------------------------------------------------------------------------
\* PreviewTorrentDialog.

\* setupTotalSizeLabel: half a hundredth is added and the result rounded, and what is
\* before the point is thrown away.
Hundredths(mb) == ((100 * mb) \div Kilo + 1) % 100
TotalSizeLabel(size) ==
    IF size < UnitSize("GB") THEN [mb |-> size \div UnitSize("MB")]
    ELSE [mb |-> size \div UnitSize("MB"), gb |-> size \div UnitSize("GB"),
          hundredths |-> Hundredths((size % UnitSize("GB")) \div UnitSize("MB"))]

\* setDownloadSizeLabelText: what is not yet a MB is not divided.
DownloadSizeLabel(size) ==
    IF size >= UnitSize("MB") THEN [mb |-> size \div UnitSize("MB")] ELSE [kb |-> size]

\* setupCreationDateLabel: the date is a long long, the time that Qt takes is not.
CreationDateLabel(date) ==
    IF date = 0 THEN "Unknown"
    ELSE IF date > 2^IntWidth - 1 THEN "Overflow" ELSE Low(date, IntWidth)

\* toHex and setupInfoHashLabel.
ToHex(byte)     == <<byte \div 16, byte % 16>>
HashLabel(hash) == FoldLeft(LAMBDA label, byte : label \o ToHex(byte), <<>>, hash)
----------------------------------------------------------------------------
\* What holds for the numbers, over a bounded range of them.

\* The remaining time is unknown until there are enough estimates.  Then, of a download
\* that moves, it is at least what the pieces would take at the highest rate of the
\* seconds that are remembered and at most ten seconds more than at the lowest.
Samples == [rate : {2, 8}, count : {1, 2}]
EstimatesRight(size) ==
    \A samples \in [1..KeptTimes + 1 -> Samples] :
        LET after[n \in 0..KeptTimes + 1] ==
                IF n = 0 THEN NewWidget
                ELSE Second(after[n-1], <<1, samples[n].rate - 1>>, samples[n].count, size)
            Told(n)   == after[n].remaining
            Recent(n)   == {samples[m] : m \in {k \in 1..n : k > n - KeptTimes - KeptRates + 2}}
            Counts(n) == {s.count : s \in Recent(n)}
            Speeds(n) == {s.rate : s \in Recent(n)}
        IN  \A n \in 1..KeptTimes + 1 :
               IF n < KeptTimes THEN Told(n) = Unknown
               ELSE /\ Told(n) >= (Min(Counts(n)) * size) \div Max(Speeds(n))
                    /\ Told(n) <= (Max(Counts(n)) * size) \div Min(Speeds(n)) + 10

\* The size of the download is that of the pieces that are there and of those that are
\* scheduled, and too big by what the last piece lacks once that one is there; and the
\* download is called complete when nothing is scheduled.
SizesRight(size) ==
    \A count \in 1..3, last \in {1, size - 1, size} :
      \A available \in SUBSET (1..count) : \A scheduled \in SUBSET (1..count \ available) :
        LET wanted == SumOf([i \in 1..count |->
                IF i \notin available \cup scheduled THEN 0 ELSE IF i = count THEN last ELSE size])
            shown  == UpdateDisplay(NewWidget, <<1>>, scheduled, available, count, size,
                                    (count - 1) * size + last)
        IN  /\ shown.size = Represent(wanted + (IF count \in available THEN size - last ELSE 0))
            /\ shown.complete = (scheduled = {})

\* A number and its unit say the size to the unit, and so do the labels of the dialog,
\* except that a size in the last hundredth of a GB is shown as one GB less.
RightTo(number, unit, size) == number * unit <= size /\ size < (number + 1) * unit
LabelsRight ==
    /\ \A n \in 0..3 * Kilo, unit \in {1, Kilo, Kilo^2} :
       \A size \in {n * unit, (n + 1) * unit - 1} :
          LET shown == Represent(size)
              label == TotalSizeLabel(size)
          IN  /\ RightTo(shown.number, UnitSize(shown.unit), size)
              /\ shown.number >= Kilo => shown.unit = "GB"
              /\ RightTo(label.mb, UnitSize("MB"), size)
              /\ size >= UnitSize("GB") =>
                    LET hundredths == 100 * label.gb + label.hundredths
                        truth      == (100 * (size \div UnitSize("MB"))) \div Kilo
                    IN  hundredths = truth + (IF truth % 100 = 99 THEN -99 ELSE 1)
              /\ size >= UnitSize("MB") =>
                    RightTo(DownloadSizeLabel(size).mb, UnitSize("MB"), size)
    /\ \A seconds \in {97 * n : n \in 1..2000} :
          LET shown == PrintRemainingTime(seconds)
          IN  seconds >= 60 =>
                /\ RightTo(shown[1] * 1440 + shown[2] * 60 + shown[3], 60, seconds)
                /\ shown[2] < 24 /\ shown[3] < 60
    /\ \A date \in 1..2^IntWidth - 1 : CreationDateLabel(date) = date
    /\ \A byte, other \in 0..255 : HashLabel(<<byte>>) = HashLabel(<<other>>) => byte = other

NumbersRight == EstimatesRight(355) /\ SizesRight(300) /\ LabelsRight
=============================================================================
