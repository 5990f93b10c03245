--------------------------- MODULE LibraryPrograms ---------------------------
(***************************************************************************)
(* The programs of the library samples acsolver_dn_lu_factorization.cpp,   *)
(* simple_acblas_lu.cpp, acdnn_conv_activation.cpp, simple_acfft.hg and    *)
(* jit_lto.cpp: calls of a library are work of the stream its handle is    *)
(* set to.  Where a program branches on a result, the branch is a          *)
(* parameter.                                                              *)
(***************************************************************************)
EXTENDS StreamCalls

CONSTANT N   \* the columns of the matrix

SizesAssumption == N \in Nat /\ N >= 2

Lib == Blocking(0, 0)   \* of a handle given a stream

-------------------------------------------------------------------------------
(* acsolver_dn_lu_factorization                                            *)

Prepare ==
  Alloc(Hosts({"A", "A_copy", "LU", "L", "U", "x_true", "b", "x", "r", "ipiv"}))
    \o HostDoes({}, Hosts({"A", "A_copy", "x_true"})) \o HostDoes(Hosts({"A", "x_true"}), Hosts({"b"}))
    \o Alloc(Devs({"A", "b", "r", "Aref", "ipiv", "info"}))
    \o Upload("A", "A") \o Upload("A", "Aref") \o Upload("b", "b")
    \o Async(Null(0), {}, {Dev("info")})

Getrf ==
  Alloc({Dev("buffer")})
    \o Async(Lib, {Dev("A")}, Devs({"A", "buffer", "ipiv", "info"})) \o SyncDevice(0)
    \o Download("info", "info") \o HostDoes({Host("info")}, {})

VerifyFactorization ==
  Download("A", "LU") \o Download("ipiv", "ipiv")
    \o HostDoes({Host("LU")}, Hosts({"L", "U"}))
    \o HostDoes(Hosts({"A_copy", "L", "U", "ipiv"}), {})

\* The right-hand side is kept in d_r, by the default stream.
Getrs ==
  Async(Null(0), {Dev("b")}, {Dev("r")})
    \o Async(Lib, Devs({"A", "ipiv", "b"}), Devs({"b", "info"})) \o SyncDevice(0)
    \o Download("b", "x") \o Download("info", "info") \o HostDoes({Host("info")}, {})

Residual ==
  HostDoes(Hosts({"x", "x_true"}), {})
    \o Async(Lib, Devs({"Aref", "b", "r"}), {Dev("r")}) \o Download("r", "r")
    \o HostDoes(Hosts({"r", "A", "x"}), {})

Cleanup ==
  Free(Devs({"buffer", "A", "b", "r", "Aref", "ipiv", "info"}))
    \o Free(Hosts({"A", "A_copy", "LU", "L", "U", "x_true", "b", "x", "r", "ipiv"}))

\* `failed` is the step whose info is not zero, or "none".
AcsolverLu(failed) ==
  Prepare \o Getrf
    \o (IF failed = "getrf" THEN << >> ELSE VerifyFactorization \o Getrs)
    \o (IF failed = "none" THEN Residual ELSE << >>)
    \o Cleanup

-------------------------------------------------------------------------------
(* simple_acblas_lu: on the default stream                                 *)

Blas(reads, writes) == Async(Null(0), Devs(reads), Devs(writes))

\* The choice of column k's pivot.
Pivot(k) == Download("A", "colbuf") \o HostDoes({Host("colbuf")}, {Host("pivot")})

LuDecompose(swapped, last) ==
  ForEach(0, last, LAMBDA k :
    Pivot(k)
      \o (IF k \in swapped THEN Blas({"A"}, {"A"}) ELSE << >>)
      \o Download("A", "diag_val") \o HostDoes({Host("diag_val")}, {})
      \o (IF k < N - 1 THEN Blas({"A"}, {"A"}) \o Blas({"A"}, {"A"}) ELSE << >>))

VerifyLu ==
  Download("A", "LU") \o HostDoes({Host("LU")}, Hosts({"L", "U"}))
    \o Alloc(Devs({"L", "U", "LU_check"})) \o Upload("L", "L") \o Upload("U", "U")
    \o Blas({"L", "U"}, {"LU_check"}) \o Download("LU_check", "LU_check")
    \o HostDoes(Hosts({"A_orig", "pivot"}), {Host("PA")})
    \o HostDoes(Hosts({"LU_check", "PA"}), {})
    \o Free(Devs({"L", "U", "LU_check"})) \o Free(Hosts({"LU", "L", "U", "LU_check", "PA"}))

SolveWithLu ==
  HostDoes(Hosts({"b", "pivot"}), {Host("pb")})
    \o Alloc({Dev("x")}) \o Upload("pb", "x")
    \o Blas({"A", "x"}, {"x"}) \o Blas({"A", "x"}, {"x"})
    \o Download("x", "x") \o HostDoes(Hosts({"x", "b"}), {})
    \o Free({Dev("x")}) \o Free(Hosts({"pb", "x"}))

\* Rows are swapped at some of the columns before `singular`, where no pivot is
\* found; N stands for none such.
AcblasLu(swapped, singular) ==
  HostDoes({}, Hosts({"A", "A_orig", "b"})) \o Alloc({Dev("A")}) \o Upload("A", "A")
    \o LuDecompose(swapped, singular - 1)
    \o (IF singular < N THEN Pivot(singular)
        ELSE Download("A", "A") \o HostDoes(Hosts({"A", "pivot"}), {}) \o VerifyLu \o SolveWithLu)
    \o Free({Dev("A")}) \o Free(Hosts({"A", "A_orig", "colbuf"}))

-------------------------------------------------------------------------------
(* acdnn_conv_activation, simple_acfft and jit_lto                         *)

ConvActivation ==
  HostDoes({}, Hosts({"x", "f"})) \o Alloc(Devs({"x", "f", "y", "y_act"}))
    \o Upload("x", "x") \o Upload("f", "f") \o Alloc({Dev("workspace")})
    \o Async(Lib, Devs({"x", "f"}), Devs({"workspace", "y"})) \o SyncDevice(0)
    \o Async(Lib, {Dev("y")}, {Dev("y_act")}) \o SyncDevice(0)
    \o Download("y_act", "y") \o HostDoes(Hosts({"x", "f", "y"}), {})
    \o Free(Devs({"workspace", "x", "f", "y", "y_act"})) \o Free(Hosts({"x", "f", "y"}))

\* A transform or a filter of the spectrum, in place.
InPlace == Async(Null(0), {Dev("data")}, {Dev("data")}) \o SyncDevice(0)

Acfft ==
  HostDoes({}, {Host("signal")}) \o Alloc({Dev("data")})
    \o HostDoes({Host("signal")}, {Host("complex")}) \o Upload("complex", "data")
    \o Free({Host("complex")})
    \o InPlace
    \o Alloc({Dev("mag")}) \o Async(Null(0), {Dev("data")}, {Dev("mag")}) \o SyncDevice(0)
    \o Download("mag", "mag") \o HostDoes({Host("mag")}, {})
    \o InPlace \o InPlace
    \o Download("data", "filtered") \o HostDoes(Hosts({"signal", "filtered"}), {})
    \o Free(Devs({"data", "mag"})) \o Free(Hosts({"signal", "mag", "filtered"}))

\* compile_to_lto_ir and compile_to_hgbin make the two images, the linker the third.
CompileAndLink ==
  HostDoes({}, Hosts({"lto_ir"})) \o HostDoes({}, Hosts({"hgbin"}))
    \o HostDoes(Hosts({"lto_ir", "hgbin"}), Hosts({"linked_bin"}))
    \o Free(Hosts({"lto_ir", "hgbin"}))

\* jit_lto.cpp
JitLto ==
  CompileAndLink \o HostDoes(Hosts({"linked_bin"}), {})
    \o HostDoes({}, Hosts({"x", "y"})) \o Alloc(Devs({"x", "y", "out"}))
    \o Upload("x", "x") \o Upload("y", "y")
    \o Async(Null(0), Devs({"x", "y"}), {Dev("out")}) \o SyncDevice(0)
    \o Download("out", "out") \o HostDoes(Hosts({"x", "y", "out"}), {})
    \o Free(Devs({"x", "y", "out"})) \o Free(Hosts({"linked_bin", "x", "y", "out"}))
===============================================================================
