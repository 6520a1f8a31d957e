------------------------------- MODULE CmdLine ------------------------------
(***************************************************************************)
(* The command line (mainex, FindCommand, GetValue, GetA20Method in        *)
(* src/src/INIT16.ASM).  Options are searched in the line as substrings,   *)
(* in the order of CmdTable, and cut out of it when found.                 *)
(***************************************************************************)
EXTENDS CmdTable, SequencesExt

CONSTANT Lines   (* what users type: sequences of words                    *)

VARIABLES
  typed,    (* the words typed, and whether Jemm is loaded as a driver     *)
  driver,
  line,     (* cmdline, the pieces of what is left of it                   *)
  row,      (* the option that is searched next                            *)
  opt,      (* jemmini, the variables the options set                      *)
  ranges    (* calls of SetMemoryType for I=, S=, X=                       *)

vars == <<typed, driver, line, row, opt, ranges>>

LoadOnly == {"NoVCPI", "NoA20", "NoVME", "NoPGE"}
HasWord(w) == \E i \in DOMAIN typed : typed[i] = w

Init ==
  /\ typed \in Lines /\ driver \in BOOLEAN
  /\ line = FlattenSeq([i \in DOMAIN typed |-> typed[i] \o <<Blank>>])
  /\ row = 1 /\ ranges = <<>>
  /\ opt = [s \in Settings |-> CASE s = "Load" -> IF driver THEN 1 ELSE 0
                                 [] s \in {"A20Method", "bFrameWanted", "MaxMem16k", "HmaMin",
                                           "xms_max", "xms_smax", "xms_num_handles", "X2Max",
                                           "MinMem16k", "DMABufferSize", "Border"} -> Unset
                                 [] OTHER -> 0]
-----------------------------------------------------------------------------
(* FindCommand: the first place where the name lies in the line.           *)
At(cmd, l) == {i \in 0 .. Len(l) - Len(cmd) : \A k \in DOMAIN cmd : l[i + k] = cmd[k]}
Found(cmd, l) == At(cmd, l) # {}
Place(cmd, l) == CHOOSE i \in At(cmd, l) : \A j \in At(cmd, l) : i <= j
Cut(l, from, n) == SubSeq(l, 1, from) \o SubSeq(l, from + n + 1, Len(l))
FindCommand(cmd, l) == [line |-> Cut(l, Place(cmd, l), Len(cmd)), at |-> Place(cmd, l)]

(* GetValue: the number at a place, cut out with its suffix; 0 and a carry *)
(* when there is none.                                                     *)
Piece(l, at) == IF at < Len(l) THEN l[at + 1] ELSE ""
Scale(s) == IF s = "M" THEN 1024 ELSE 1
GetValue_SuffixKept(l, at, base, suffix) ==   \* mutant: the suffix is left in the line
  LET d == Piece(l, at)
      ok == IF base = 16 THEN d \in HexDigits ELSE d \in Digits
      s == IF suffix THEN Piece(l, at + 1) ELSE ""
  IN  [ok |-> ok,
       n |-> IF ~ ok THEN 0 ELSE IF base = 16 THEN Hex[d] ELSE Dec[d] * Scale(s),
       line |-> IF ok THEN Cut(l, at, 1) ELSE l]

GetValue(l, at, base, suffix) ==
  LET d == Piece(l, at)
      ok == IF base = 16 THEN d \in HexDigits ELSE d \in Digits
      s == IF suffix THEN Piece(l, at + 1) ELSE ""
  IN  [ok |-> ok,
       n |-> IF ~ ok THEN 0 ELSE IF base = 16 THEN Hex[d] ELSE Dec[d] * Scale(s),
       line |-> IF ok THEN Cut(l, at, IF s \in Units THEN 2 ELSE 1) ELSE l]

Least(a, b) == IF a < b THEN a ELSE b
Most(a, b) == IF a < b THEN b ELSE a

(* What mainex makes of the number of an option.                           *)
Limit(how, n, old) ==
  CASE how = "hmamin" -> Least(n, 63)
    [] how = "size" -> n
    [] how = "handles" -> Most(10, Least(n, 128))
    [] how = "pages" -> n \div 16
    [] how = "frame" -> IF n % 256 = 0 THEN n \div 256 ELSE old
    [] how = "dma" -> IF n <= 128 THEN 4 * ((n + 3) \div 4) ELSE 128
    [] how = "border" -> Most(n, 4096)

Base(how) == IF how \in {"frame", "border"} THEN 16 ELSE 10
Suffixed(how) == how \in {"size", "pages"}

(* GetA20Method: an unknown method is left in the line.                    *)
MethodIndex(l, at) == IF Piece(l, at) \in Methods THEN 1 ELSE 0

TakeRow(r, cmd) ==
  LET f == FindCommand(cmd, line)
      v == GetValue(f.line, f.at, Base(r.how), Suffixed(r.how))
      m == MethodIndex(f.line, f.at)
  IN  CASE r.how = "flag" -> opt' = [opt EXCEPT ![r.sets] = r.to] /\ line' = f.line
        [] r.how = "method" -> opt' = [opt EXCEPT ![r.sets] = m] /\ line' = Cut(f.line, f.at, m)
        [] OTHER -> opt' = [opt EXCEPT ![r.sets] = Limit(r.how, v.n, @)] /\ line' = v.line
-----------------------------------------------------------------------------
(* A row is searched by the driver, the program, always, or for loading;   *)
(* FRAME= is not looked for behind FRAME=NONE.                             *)
Applies(r) ==
  /\ CASE r.who = "driver" -> driver [] r.who = "program" -> ~ driver
       [] r.who = "load" -> opt["Load"] = 1 [] OTHER -> TRUE
  /\ r.sets = "bFrameWanted" => opt["NoFrame"] = 0

FirstFound(r) == SelectInSeq(r.cmds, LAMBDA c : Found(c, line))

(* A program that does not load changes only what it is told to.           *)
Search ==
  /\ row <= Len(Rows) /\ opt["Unload"] = 0
  /\ LET r == Rows[row]
     IN  IF Applies(r) /\ FirstFound(r) # 0
         THEN TakeRow(r, r.cmds[FirstFound(r)])
         ELSE IF r.sets = "Load" /\ ~ driver
         THEN opt' = [s \in Settings |-> IF s \in LoadOnly THEN ByteUnset ELSE opt[s]] /\ UNCHANGED line
         ELSE UNCHANGED <<line, opt>>
  /\ row' = row + 1
  /\ UNCHANGED <<typed, driver, ranges>>

RangeCmds == << <<"I=">>, <<"S=">>, <<"X=">> >>

(* The loop for the ranges: all I=, then all S=, then all X=.              *)
FindRange ==
  /\ row = Len(Rows) + 1 /\ opt["Load"] = 1
  /\ \E c \in DOMAIN RangeCmds :
       /\ Found(RangeCmds[c], line)
       /\ \A b \in 1 .. c - 1 : ~ Found(RangeCmds[b], line)
       /\ LET f == FindCommand(RangeCmds[c], line)
              lo == GetValue(f.line, f.at, 16, FALSE)
              dash == lo.ok /\ Piece(lo.line, f.at) = "-"
              hi == GetValue([lo.line EXCEPT ![f.at + 1] = Blank], f.at + 1, 16, FALSE)
          IN  /\ line' = IF dash THEN hi.line ELSE lo.line
              /\ ranges' = IF dash /\ hi.ok /\ lo.n >= 40960 /\ lo.n < hi.n
                           THEN Append(ranges, [type |-> RangeCmds[c], from |-> lo.n, to |-> hi.n])
                           ELSE ranges
  /\ UNCHANGED <<typed, driver, row, opt>>

NoRange == opt["Load"] = 0 \/ \A c \in DOMAIN RangeCmds : ~ Found(RangeCmds[c], line)

(* $I395: a number alone is MAX=.                                          *)
Blanks == CHOOSE n \in 0 .. Len(line) :
            /\ \A i \in 1 .. n : line[i] = Blank
            /\ n < Len(line) => line[n + 1] # Blank
TrailingMax ==
  /\ row = Len(Rows) + 1 /\ NoRange
  /\ LET v == GetValue(line, Blanks, 10, TRUE)
     IN  /\ line' = v.line
         /\ opt' = IF v.ok THEN [opt EXCEPT !["MaxMem16k"] = v.n \div 16] ELSE opt
  /\ row' = row + 1
  /\ UNCHANGED <<typed, driver, ranges>>

Next == Search \/ FindRange \/ TrailingMax
Spec == Init /\ [][Next]_vars
-----------------------------------------------------------------------------
(* What a line means when every word is read for itself: the last row of   *)
(* the order one of whose names is the beginning of a word, as a whole.    *)
NameOf(w) == CHOOSE k \in 0 .. Len(w) :
               /\ k = 0 \/ \E i \in DOMAIN Rows : ToSet(Rows[i].cmds) \intersect {SubSeq(w, 1, k)} # {}
               /\ \A j \in k + 1 .. Len(w) : \A i \in DOMAIN Rows :
                    SubSeq(w, 1, j) \notin ToSet(Rows[i].cmds)
Names == {SubSeq(typed[i], 1, NameOf(typed[i])) : i \in DOMAIN typed}
Finished == row = Len(Rows) + 2

CmdTypeOK ==
  /\ typed \in Lines /\ driver \in BOOLEAN /\ row \in 1 .. Len(Rows) + 2
  /\ opt \in [Settings -> Int]
  /\ opt["HmaMin"] <= 63 /\ opt["xms_num_handles"] \in {Unset} \union 10..128
  /\ opt["DMABufferSize"] \in {Unset} \union {4 * n : n \in 0..32}
  /\ opt["Border"] = Unset \/ opt["Border"] >= 4096

(* A switch has the value of the last of its options that was typed, and   *)
(* none has a value because its name lies inside another option's: the     *)
(* order of the search takes NOVDS before VDS, X2MAX= before MAX=.         *)
WordsAlone ==
  Finished /\ opt["Load"] = 1 =>
    \A s \in {r.sets : r \in {q \in ToSet(Rows) : q.how = "flag"}} \ {"Load", "Unload"} :
      LET named == {i \in DOMAIN Rows : Rows[i].sets = s /\ ToSet(Rows[i].cmds) \intersect Names # {}}
          seen == {i \in named : Rows[i].who \in {"all", "load", IF driver THEN "driver" ELSE "program"}}
      IN  opt[s] = IF seen = {} THEN 0
                   ELSE Rows[CHOOSE i \in seen : \A j \in seen : j <= i].to

(* ... and a value is set only by the option it belongs to.                *)
ValuesAlone ==
  Finished =>
    \A r \in {q \in ToSet(Rows) : q.how # "flag"} :
      opt[r.sets] # Unset => \/ ToSet(r.cmds) \intersect Names # {}
                             \/ r.sets = "MaxMem16k" /\ \E i \in DOMAIN typed : typed[i][1] \in Digits

(* Nothing of a line of options Jemm knows is left over to be reported.    *)
Meaningful(w) == NameOf(w) # 0 \/ w[1] \in {"I=", "S=", "X="} \union Digits
NothingLeft ==
  Finished /\ opt["Load"] = 1 /\ driver
    /\ (\A i \in DOMAIN typed : Meaningful(typed[i]) /\ typed[i][1] # "UN" /\ typed[i] # <<"LOAD">>
                                 /\ typed[i] \notin { <<"/?">>, <<"-?">>, <<"/H">>, <<"-H">> }) =>
    \A i \in DOMAIN line : line[i] = Blank

(* A range that was typed well is applied, with the limits typed.          *)
RangesTaken ==
  Finished /\ opt["Load"] = 1 =>
    \A i \in DOMAIN typed :
      (Len(typed[i]) = 4 /\ typed[i][3] = "-" /\ Hex[typed[i][2]] < Hex[typed[i][4]] /\ Hex[typed[i][2]] >= 40960)
      => \E k \in DOMAIN ranges : ranges[k] = [type |-> <<typed[i][1]>>, from |-> Hex[typed[i][2]], to |-> Hex[typed[i][4]]]

(* NOMOVEXBDA leaves the XBDA where it is.                                 *)
NoOpIsNoOp == opt["MoveXbda"] = 1 => HasWord(<<"MOVEXBDA">>)
=============================================================================
