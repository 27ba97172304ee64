---------------------------- MODULE MC_StubEmitter ----------------------------
EXTENDS StubEmitter

\* One kind per branch of EmitReadStubMethodParameter; "int" stands for
\* every plain type read through its address.
MCKinds == {"string", "interface", "struct", "union", "array", "fd", "int"}

=============================================================================
