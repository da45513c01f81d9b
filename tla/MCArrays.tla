------------------------------- MODULE MCArrays -------------------------------
(***************************************************************************)
(* Three machines about arrays, for one run of TLC: the views of Layout,   *)
(* the writers of BulkOps and the scans of ParallelScan.  They share no    *)
(* state: a behaviour is one of any of them, the others at rest.           *)
(***************************************************************************)
EXTENDS MCLayout, BulkOps, ParallelScan

Strided(shape, strides) == [shape |-> shape, strides |-> strides]

\* One and two axes; contiguous, with gaps, with the axes exchanged, and one
\* element broadcast; empty.
MCArguments ==
  {Strided(<<3>>, <<1>>), Strided(<<3>>, <<2>>), Strided(<<3>>, <<0>>), Strided(<<2, 3>>, <<3, 1>>),
   Strided(<<2, 3>>, <<1, 2>>), Strided(<<0>>, <<1>>)}

\* Indices twice the same, from either end, and beyond both.
MCLists == {<<0, 0, 2>>, <<-1, 5, 1>>, <<-9, 1, 0>>, <<>>}

MCPowers == {2^k : k \in 0..4}

VARIABLE job

ViewsRest ==
  /\ view = NewC(<<0>>)
  /\ array = RowMajor(<<0>>)
  /\ capacity = 0

ScanRests ==
  /\ len = 0
  /\ phase = "returned"
  /\ pos = <<>> /\ acc = <<>> /\ totals = <<>>
  /\ next = 2
  /\ scanned = <<>>

MCInit ==
  /\ BulkInit
  /\ \/ job = "views" /\ Init /\ ScanRests
     \/ job = "bulk" /\ ViewsRest /\ ScanRests
     \/ job = "scan" /\ ViewsRest /\ ScanInit

Views == job = "views" /\ Next /\ UNCHANGED <<job, bulkVars, scanVars>>
Bulk  == job = "bulk" /\ BulkNext /\ UNCHANGED <<job, vars, scanVars>>
Scans(A) == job = "scan" /\ A /\ UNCHANGED <<job, vars, bulkVars>>

MCSpec ==
  /\ MCInit
  /\ [][Views \/ Bulk \/ Scans(ScanNext)]_<<job, vars, bulkVars, scanVars>>
  /\ WF_scanVars(Scans(Step))
===============================================================================
