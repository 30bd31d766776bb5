----------------------------- MODULE MCBytecode -----------------------------
(***************************************************************************)
(* A program on its way to the machine: as the codes of its cells (Bytecode)  *)
(* and each code as bytes (Bytes); and what the control operators that the    *)
(* compiler sends with it make of it (Control). They share no variable: a     *)
(* behaviour is about one of them.                                          *)
(***************************************************************************)
EXTENDS Bytecode, Corpus, Control, MCBytes

VARIABLE about  \* "codes", "bytes" or "control"

mcVars == <<vars, byteVars, controlVars, about>>

Some(set) == CHOOSE chosen \in set : TRUE

BytesIdle ==
  build = [checked |-> TRUE, float |-> TRUE] /\ sent = Some(Codes) /\ missing = 0
  /\ following = <<>> /\ ByteInit

MCInit ==
  \/ /\ about = "codes"
     /\ BytesIdle
     /\ Init /\ ControlIdle
  \/ /\ about = "bytes"
     /\ source = Some(Sources) /\ leftover = <<>> /\ Init
     /\ ByteInit /\ ControlIdle
  \/ /\ about = "control"
     /\ source = Some(Sources) /\ leftover = <<>> /\ Init
     /\ BytesIdle
     /\ ControlInit

OnCodes(A) == about = "codes" /\ A /\ UNCHANGED <<byteVars, controlVars, about>>
OnBytes(A) == about = "bytes" /\ A /\ UNCHANGED <<vars, controlVars, about>>
OnControl(A) == about = "control" /\ A /\ UNCHANGED <<vars, byteVars, about>>

MCNext ==
  \/ OnCodes(Next)
  \/ OnBytes(ReadHead)
  \/ OnBytes(ReadTail)
  \/ OnBytes(FinishCode)
  \/ OnControl(ControlNext)

MCSpec == MCInit /\ [][MCNext]_mcVars /\ WF_mcVars(MCNext)

(* Every program is encoded without an error and decoded to its end: the     *)
(* counts of the first traversal are the uses of the second, so the          *)
(* dictionary is empty when everything is sent (the checks of `encode`).     *)
ProgramDelivered == about = "codes" => <>(phase = "done")

(* A program as `main` of compile.scm hands it to the encoder: #f in front   *)
(* of the code.                                                            *)
Packed(p) ==
  [heap |-> Append(p.heap, Cell(Reference(p.false), Reference(p.code), PairType)),
   root |-> Len(p.heap) + 1]

(* (begin datum ... #f): quoted data in the code of a program. The data are  *)
(* cells 5 and above.                                                      *)
Quoting(cells, data) ==
  LET heap == Constants \o cells
      cell[i \in Nat] ==
        Cell(Reference(IF i > Len(data) THEN FalseCell ELSE data[i]),
             Reference(IF i > Len(data) THEN NullCell ELSE Len(heap) + i + 1), Constant)
  IN Packed([heap |-> heap \o [i \in 1 .. Len(data) + 1 |-> cell[i]],
             false |-> FalseCell, code |-> Len(heap) + 1])

(* Characters, strings, symbols and pairs, which share one another.         *)
Data ==
  <<Cell(Number(97), Reference(NullCell), CharType),
    Cell(Number(200), Reference(NullCell), PairType),
    Cell(Number(1), Reference(6), StringType),
    Cell(Reference(FalseCell), Reference(7), SymbolType),
    Cell(Reference(5), Reference(TrueCell), PairType)>>

Quotations ==
  {Quoting(Data, data) : data \in {<<a, b, c, d>> : a \in {5, 7, 8}, b \in {2, 8},
                                                   c \in {3, 5, 7, 8}, d \in {5, 8}}}

Nops == {Start(<<Branch(Var("n"), a, b), Var("k")>>) : a \in {N(200), Branch(Var("r"), N(1), Var("k"))},
                                                    b \in {Var("r"), Branch(N(1), Var("n"), Do(<<Branch(Var("k"), N(-3), N(2)), N(3)>>))}}

Compiled == {Packed(Program(e)) : e \in Nops \cup Looping \cup {InProcedure(e) : e \in Once}}

Programs == Quotations \cup Compiled

NothingOrOldRun == {<<>>, <<Number(5), Number(6)>>}
=============================================================================
