------------------------------ MODULE StubEmitter ------------------------------
(***************************************************************************)
(* The C service stub that hdi-gen emits for one interface method          *)
(* (tools/hdi-gen/codegen/c_service_stub_code_emitter.cpp), and a run of    *)
(* that stub on one request.                                               *)
(*                                                                         *)
(* The emitter is a pure function from a method signature to C text.  Its  *)
(* operators below keep the control of that function -- which statements   *)
(* it emits, for which parameter, in which order, behind which check --    *)
(* and drop the text: a statement is a record [op, p] naming what it does  *)
(* and the index of the parameter it is about.  The state machine then     *)
(* executes the emitted statements one by one, the way the generated       *)
(* SerStub<Method> runs when OnRemoteRequest dispatches a request to it;   *)
(* every read, allocation, implementation call and write may fail.         *)
(*                                                                         *)
(* Reads and writes of one parameter are emitted by the type emitters      *)
(* (EmitCStubReadVar, EmitCWriteVar), which are not part of the repository; *)
(* they are taken to read or write one value and, on failure, set ec to an *)
(* error and jump to the errors label, as the emitted code around them     *)
(* expects.                                                                *)
(***************************************************************************)
EXTENDS Naturals, Sequences, SequencesExt

CONSTANTS
  Kinds,      \* the TypeKinds a parameter may have (TYPE_LIST is TYPE_ARRAY here)
  MaxParams   \* the longest parameter list enumerated

Attrs == {"in", "out"}               \* ParamAttr::PARAM_IN, PARAM_OUT
Param == [kind : Kinds, attr : Attrs]
Signatures == BoundedSeq(Param, MaxParams)

Stmt(op, i) == [op |-> op, p |-> i]

IsArray(p) == p.kind = "array"

\* The parameters of sig with attribute a, as indices in declaration order.
ParamsWith(sig, a) == SelectSeq([i \in 1..Len(sig) |-> i], LAMBDA i : sig[i].attr = a)

(***************************************************************************)
(* The emitter                                                             *)
(***************************************************************************)

\* Mutant: the array length local is not declared.
StubLocalVariableNoLen(i, p) == <<Stmt("local", i)>>

\* EmitStubLocalVariable: the parameter's local, and a uint32_t <name>Len
\* beside it for an array or list.
EmitStubLocalVariable(i, p) ==
  <<Stmt("local", i)>> \o (IF IsArray(p) THEN <<Stmt("local_len", i)>> ELSE <<>>)

\* EmitReadCStringStubMethodParameter: the string is read into <name>Cp;
\* kernel code copies it into an OsalMemCalloc buffer it NULL-checks, user
\* code strdup()s it without a check.
EmitReadCStringStubMethodParameter(i, kernel) ==
  <<Stmt("read_cp", i)>> \o
  IF kernel THEN <<Stmt("alloc", i), Stmt("null_check", i), Stmt("strcpy", i)>>
            ELSE <<Stmt("strdup", i)>>

\* Mutant: a struct is read into its buffer without the NULL check.
ReadStubMethodParameterNoCheck(i, p, kernel) ==
  CASE p.kind = "string" -> EmitReadCStringStubMethodParameter(i, kernel)
    [] p.kind = "struct" -> <<Stmt("alloc", i), Stmt("read_into", i)>>
    [] p.kind = "union"  -> <<Stmt("read_cp", i), Stmt("alloc", i),
                             Stmt("null_check", i), Stmt("memcpy", i)>>
    [] OTHER             -> <<Stmt("read", i)>>

\* EmitReadStubMethodParameter: a struct gets an OsalMemAlloc buffer that
\* is NULL-checked and then read into; a union is read into <name>Cp, then
\* a checked buffer is allocated and the copy memcpy_s'd into it; every
\* other kind (interface, array/list, fd, plain) is read straight into the
\* local or its address.
EmitReadStubMethodParameter(i, p, kernel) ==
  CASE p.kind = "string" -> EmitReadCStringStubMethodParameter(i, kernel)
    [] p.kind = "struct" -> <<Stmt("alloc", i), Stmt("null_check", i), Stmt("read_into", i)>>
    [] p.kind = "union"  -> <<Stmt("read_cp", i), Stmt("alloc", i),
                             Stmt("null_check", i), Stmt("memcpy", i)>>
    [] OTHER             -> <<Stmt("read", i)>>

\* Mutant: every parameter is read from data, whatever its attribute.
StubReadsAll(sig, kernel) ==
  FlattenSeq([i \in 1..Len(sig) |-> EmitReadStubMethodParameter(i, sig[i], kernel)])

\* Mutant: the loop reads GetParameter(i) but emits for the next index.
StubReadsNextIndex(sig, kernel) ==
  FlattenSeq([i \in 1..Len(sig) |->
                IF sig[i].attr = "in" THEN EmitReadStubMethodParameter(i + 1, sig[i], kernel)
                                      ELSE <<>>])

\* The second loop of EmitServiceStubMethodImpl: the PARAM_IN parameters
\* are read from data, in declaration order.
StubReads(sig, kernel) ==
  FlattenSeq([i \in 1..Len(sig) |->
                IF sig[i].attr = "in" THEN EmitReadStubMethodParameter(i, sig[i], kernel)
                                      ELSE <<>>])

\* EmitCallParameter: the variables the call passes for parameter i: the
\* local (by address for PARAM_OUT) and, for an array or list, its length.
EmitCallParameter(i, p) ==
  {<<"var", i>>} \cup (IF IsArray(p) THEN {<<"len", i>>} ELSE {})

\* Mutant: the implementation's result is not checked.
StubCallMethodNoCheck(sig) == <<Stmt("call", 0)>>

\* EmitStubCallMethod: ec = serviceImpl-><Method>(serviceImpl, ...);
\* if (ec != HDF_SUCCESS) goto errors.
EmitStubCallMethod(sig) == <<Stmt("call", 0), Stmt("call_check", 0)>>

\* EmitServiceStubMethodImpl: ec = HDF_FAILURE; in kernel code one loop
\* counter i if any parameter is an array or list; the locals; the reads;
\* the call; EmitCWriteVar to reply for every PARAM_OUT parameter in
\* declaration order; the errors label (EmitErrorHandle); return ec.
EmitServiceStubMethodImpl(sig, kernel) ==
  (IF kernel /\ \E i \in 1..Len(sig) : IsArray(sig[i]) THEN <<Stmt("decl_i", 0)>> ELSE <<>>)
  \o FlattenSeq([i \in 1..Len(sig) |-> EmitStubLocalVariable(i, sig[i])])
  \o StubReads(sig, kernel)
  \o EmitStubCallMethod(sig)
  \o [k \in 1..Len(ParamsWith(sig, "out")) |-> Stmt("write", ParamsWith(sig, "out")[k])]
  \o <<Stmt("errors", 0), Stmt("return", 0)>>

\* The variables statement s of a stub for sig uses: a read of an array
\* fills the local and its length, and in kernel code loops with i.
Uses(s, sig, kernel) ==
  CASE s.op = "call" -> UNION {EmitCallParameter(i, sig[i]) : i \in 1..Len(sig)}
    [] s.op = "read" /\ IsArray(sig[s.p]) ->
         {<<"var", s.p>>, <<"len", s.p>>} \cup (IF kernel THEN {<<"i", 0>>} ELSE {})
    [] s.op \in {"read", "read_into", "alloc", "null_check", "strcpy", "memcpy",
                 "strdup", "write"} -> {<<"var", s.p>>}
    [] OTHER -> {}

\* The variables statement s declares.
Declares(s) ==
  CASE s.op = "local"     -> {<<"var", s.p>>}
    [] s.op = "local_len" -> {<<"len", s.p>>}
    [] s.op = "decl_i"    -> {<<"i", 0>>}
    [] OTHER              -> {}

(***************************************************************************)
(* A run of the emitted stub on one request                                *)
(***************************************************************************)

VARIABLES
  sig,      \* the method's parameters
  kernel,   \* isKernelCode_
  pc,       \* 0 before dispatch; else the index of the next statement
  ec,       \* the stub's local ec
  mem,      \* mem[i]: what parameter i's buffer pointer holds
  reads,    \* the parameters read from data, in order
  writes,   \* the parameters written to reply, in order
  implRet,  \* what the implementation returned, "NONE" if it was not called
  ret       \* what the stub returned, "NONE" while it runs

vars == <<sig, kernel, pc, ec, mem, reads, writes, implRet, ret>>

Ptr == {"none", "obj", "null"}
Codes == {"SUCCESS", "FAILURE", "INVALID_PARAM", "MALLOC_FAIL", "IMPL_ERR"}

prog == EmitServiceStubMethodImpl(sig, kernel)
cur == prog[pc]
ErrorsAt == Len(prog) - 1
Finished == Len(prog) + 1

TypeOK ==
  /\ sig \in Signatures
  /\ kernel \in BOOLEAN
  /\ pc \in 0..Finished
  /\ ec \in Codes
  /\ mem \in [1..MaxParams -> Ptr]
  /\ reads \in Seq(1..MaxParams) /\ writes \in Seq(1..MaxParams)
  /\ implRet \in {"NONE", "SUCCESS", "IMPL_ERR"}
  /\ ret \in Codes \cup {"NONE"}

Init ==
  /\ sig \in Signatures
  /\ kernel \in BOOLEAN
  /\ pc = 0
  /\ ec = "FAILURE"
  /\ mem = [i \in 1..MaxParams |-> "none"]
  /\ reads = <<>> /\ writes = <<>>
  /\ implRet = "NONE" /\ ret = "NONE"

Goto(k) == pc' = k
GotoErrors(code) == ec' = code /\ Goto(ErrorsAt)
Advance == Goto(pc + 1)
At(ops) == pc \in 1..Len(prog) /\ cur.op \in ops

\* EmitServiceStubOnRequestMethodImpl: case CMD_<Method> calls the stub.
OnRemoteRequest ==
  /\ pc = 0
  /\ Goto(1)
  /\ UNCHANGED <<sig, kernel, ec, mem, reads, writes, implRet, ret>>

\* The default case: an unknown command returns HDF_ERR_INVALID_PARAM.
OnRemoteRequestUnknown ==
  /\ pc = 0
  /\ ret' = "INVALID_PARAM"
  /\ Goto(Finished)
  /\ UNCHANGED <<sig, kernel, ec, mem, reads, writes, implRet>>

\* Declarations and the errors label do nothing at run time here.
ExecDeclare ==
  /\ At({"decl_i", "local", "local_len", "errors"})
  /\ Advance
  /\ UNCHANGED <<sig, kernel, ec, mem, reads, writes, implRet, ret>>

\* A read from data succeeds and yields the parameter's value.
ExecRead ==
  /\ At({"read", "read_cp", "read_into"})
  /\ reads' = Append(reads, cur.p)
  /\ Advance
  /\ UNCHANGED <<sig, kernel, ec, mem, writes, implRet, ret>>

\* A read from data fails: ec is an error and control goes to errors.
ExecReadFail ==
  /\ At({"read", "read_cp", "read_into"})
  /\ GotoErrors("INVALID_PARAM")
  /\ UNCHANGED <<sig, kernel, mem, reads, writes, implRet, ret>>

\* OsalMemAlloc, OsalMemCalloc or strdup: the buffer or NULL.
ExecAlloc ==
  /\ At({"alloc", "strdup"})
  /\ \E r \in {"obj", "null"} : mem' = [mem EXCEPT ![cur.p] = r]
  /\ Advance
  /\ UNCHANGED <<sig, kernel, ec, reads, writes, implRet, ret>>

\* if (<name> == NULL) { ec = HDF_ERR_MALLOC_FAIL; goto errors; }
ExecNullCheck ==
  /\ At({"null_check"})
  /\ IF mem[cur.p] = "null" THEN GotoErrors("MALLOC_FAIL") ELSE Advance /\ UNCHANGED ec
  /\ UNCHANGED <<sig, kernel, mem, reads, writes, implRet, ret>>

\* strcpy_s into a buffer of strlen + 1 bytes, or memcpy_s of the union:
\* both copy into the parameter's buffer and cannot fail.
ExecCopy ==
  /\ At({"strcpy", "memcpy"})
  /\ Advance
  /\ UNCHANGED <<sig, kernel, ec, mem, reads, writes, implRet, ret>>

\* ec = serviceImpl-><Method>(...): the implementation's result.
ExecCall ==
  /\ At({"call"})
  /\ \E r \in {"SUCCESS", "IMPL_ERR"} : implRet' = r /\ ec' = r
  /\ Advance
  /\ UNCHANGED <<sig, kernel, mem, reads, writes, ret>>

\* if (ec != HDF_SUCCESS) goto errors.
ExecCallCheck ==
  /\ At({"call_check"})
  /\ IF ec # "SUCCESS" THEN Goto(ErrorsAt) ELSE Advance
  /\ UNCHANGED <<sig, kernel, ec, mem, reads, writes, implRet, ret>>

\* EmitCWriteVar to reply succeeds.
ExecWrite ==
  /\ At({"write"})
  /\ writes' = Append(writes, cur.p)
  /\ Advance
  /\ UNCHANGED <<sig, kernel, ec, mem, reads, implRet, ret>>

\* EmitCWriteVar to reply fails: ec is an error and control goes to errors.
ExecWriteFail ==
  /\ At({"write"})
  /\ GotoErrors("INVALID_PARAM")
  /\ UNCHANGED <<sig, kernel, mem, reads, writes, implRet, ret>>

\* return ec.
ExecReturn ==
  /\ At({"return"})
  /\ ret' = ec
  /\ Advance
  /\ UNCHANGED <<sig, kernel, ec, mem, reads, writes, implRet>>

Next ==
  \/ OnRemoteRequest \/ OnRemoteRequestUnknown
  \/ ExecDeclare \/ ExecRead \/ ExecReadFail \/ ExecAlloc \/ ExecNullCheck
  \/ ExecCopy \/ ExecCall \/ ExecCallCheck \/ ExecWrite \/ ExecWriteFail
  \/ ExecReturn

Spec == Init /\ [][Next]_vars

(***************************************************************************)
(* Properties                                                              *)
(***************************************************************************)

\* Every variable a statement of the emitted stub uses -- the call's
\* arguments and <name>Len, a buffer, the kernel loop counter i -- is
\* declared by an earlier statement (EmitStubLocalVariable and the kernel
\* counter of EmitServiceStubMethodImpl).
DeclaredBeforeUse ==
  \A k \in 1..Len(prog) :
    Uses(prog[k], sig, kernel) \subseteq UNION {Declares(prog[j]) : j \in 1..k-1}

\* When the stub calls the implementation it has read from data exactly
\* the PARAM_IN parameters, each once and in declaration order: the order
\* the proxy writes them in.
ReadsMatchProxy ==
  implRet # "NONE" => reads = ParamsWith(sig, "in")

\* Nothing is written to reply unless the implementation succeeded, and
\* the stub returns HDF_SUCCESS only after writing every PARAM_OUT
\* parameter, in declaration order.
ReplyOnlyAfterSuccess ==
  /\ writes # <<>> => implRet = "SUCCESS"
  /\ ret = "SUCCESS" => implRet = "SUCCESS" /\ writes = ParamsWith(sig, "out")

\* The stub never reads or copies into a parameter's buffer unless the
\* allocation that made the buffer succeeded (the NULL checks of
\* EmitReadStubMethodParameter and EmitReadCStringStubMethodParameter).
NoWriteThroughNull ==
  [][At({"read_into", "strcpy", "memcpy"}) /\ pc' = pc + 1 => mem[cur.p] = "obj"]_vars

=============================================================================
