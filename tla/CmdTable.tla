------------------------------ MODULE CmdTable ------------------------------
(***************************************************************************)
(* The options of the command line (mainex in src/src/INIT16.ASM), in the  *)
(* order in which they are searched.  A name is the sequence of pieces     *)
(* into which the names of other options cut it, so that one name lies     *)
(* inside another exactly when its sequence does.                          *)
(***************************************************************************)
EXTENDS Integers, Sequences

Blank == " "
Digits == {"4", "64", "200", "1000"}
HexDigits == Digits \union {"A000", "C800", "CFFF", "E000", "E010"}
Units == {"K", "M"}
Hex == [d \in HexDigits |-> CASE d = "4" -> 4 [] d = "64" -> 100 [] d = "200" -> 512
          [] d = "1000" -> 4096 [] d = "A000" -> 40960 [] d = "C800" -> 51200
          [] d = "CFFF" -> 53247 [] d = "E000" -> 57344 [] d = "E010" -> 57360]
Dec == [d \in Digits |-> CASE d = "4" -> 4 [] d = "64" -> 64 [] d = "200" -> 200 [] d = "1000" -> 1000]
Methods == {"FAST", "PS2", "KBC", "BIOS", "PORT92", "ALWAYSON"}

Unset == -1
ByteUnset == 255        \* 0FFh, when an installed Jemm is only told something
-----------------------------------------------------------------------------
(* The search order: the alternatives of an option, the variable it sets,  *)
(* how, and whether only the driver, the program or loading looks for it.  *)
Row(who, cmds, sets, how, to) ==
  [who |-> who, cmds |-> cmds, sets |-> sets, how |-> how, to |-> to]
Flag(who, cmd, sets, to) == Row(who, <<cmd>>, sets, "flag", to)
Value(who, cmds, sets, how) == Row(who, cmds, sets, how, 0)

ModeRows == <<
  Flag("driver", <<"FASTBOOT">>, "FastBoot", 1),
  Flag("program", <<"UN", "LOAD">>, "Unload", 1),
  Flag("program", <<"LOAD">>, "Load", 1),
  Row("program", << <<"/?">>, <<"-?">>, <<"/H">>, <<"-H">> >>, "Help", "flag", 1) >>

SwitchRows == <<
  Flag("all", <<"NO", "VCPI">>, "NoVCPI", 1), Flag("all", <<"VCPI">>, "NoVCPI", 0),
  Value("all", << <<"A20", "METHOD:">> >>, "A20Method", "method"),
  Flag("all", <<"NO", "A20">>, "NoA20", 1), Flag("all", <<"A20">>, "NoA20", 0),
  Flag("all", <<"NO", "VME">>, "NoVME", 1), Flag("all", <<"VME">>, "NoVME", 0),
  Flag("all", <<"NO", "PGE">>, "NoPGE", 1), Flag("all", <<"PGE">>, "NoPGE", 0) >>

XmsRows == <<
  Flag("all", <<"V86EXC0D">>, "V86Exc0D", 1),
  Value("all", << <<"HMA", "MIN=">> >>, "HmaMin", "hmamin"),
  Value("all", << <<"MAXEXT=">> >>, "xms_max", "size"),
  Value("all", << <<"MAXSEXT=">> >>, "xms_smax", "size"),
  Flag("all", <<"NOE801">>, "bNoE801", 1), Flag("all", <<"NOE820">>, "bNoE820", 1),
  Value("all", << <<"XMSHANDLE", "S=">> >>, "xms_num_handles", "handles"),
  Value("all", << <<"X2", "MA", "X=">> >>, "X2Max", "size") >>

EmsRows == <<
  Row("load", << <<"VERBOSE">>, <<"/V">> >>, "bVerbose", "flag", 1),
  Flag("load", <<"NODYN">>, "NoPool", 1), Flag("load", <<"NOINVLPG">>, "NoInvlPg", 1),
  Value("load", << <<"MIN=">> >>, "MinMem16k", "pages"),
  Value("load", << <<"MA", "X=">> >>, "MaxMem16k", "pages"),
  Flag("load", <<"NOEMS">>, "NoEMS", 1),
  Flag("load", <<"NO", "VDS">>, "NoVDS", 1), Flag("load", <<"VDS">>, "NoVDS", 0),
  Flag("load", <<"F", "RAM", "E=", "NONE">>, "NoFrame", 1),
  Value("load", << <<"F", "RAM", "E=">>, <<"/P">> >>, "bFrameWanted", "frame") >>

TestRows == <<
  Flag("load", <<"X=", "TEST">>, "ExcludeTest", 1), Flag("load", <<"I=", "TEST">>, "IncludeTest", 1),
  Flag("load", <<"SB">>, "Sb", 1), Flag("load", <<"EMX">>, "Emx", 1),
  Flag("load", <<"SPLIT">>, "SplitTest", 1), Flag("load", <<"NOVMW">>, "NoVMWare", 1),
  Flag("load", <<"MOVEXBDA">>, "MoveXbda", 1), Flag("load", <<"NOCHECK">>, "NoCheck", 1),
  Flag("load", <<"ALTBOOT">>, "AltBoot", 1), Flag("load", <<"NOHI">>, "NoHigh", 1),
  Flag("load", <<"NO", "MOVEXBDA">>, "NoMoveXbda", 1),
  Flag("load", <<"NO", "RAM">>, "NoRAM", 1), Flag("load", <<"RAM">>, "NoRAM", 0) >>

AreaRows == <<
  Value("load", << <<"D=">> >>, "DMABufferSize", "dma"),
  Value("load", << <<"B=">> >>, "Border", "border") >>

Rows == ModeRows \o SwitchRows \o XmsRows \o EmsRows \o TestRows \o AreaRows
Settings == {Rows[i].sets : i \in DOMAIN Rows}
=============================================================================
