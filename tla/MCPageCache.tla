----------------------------- MODULE MCPageCache -----------------------------
(***************************************************************************)
(* Eight frames of 16 bytes, laid out as x86_mem.c does it: low memory is  *)
(* the heap and a free frame, and behind the kernel the last frame, which  *)
(* holds the frame list, is free as well.  Two frames for three threads    *)
(* and two pages, so that the free list runs empty, several threads wait   *)
(* for one page, and page 1 is cached twice.                               *)
(***************************************************************************)
EXTENDS PageCache
=============================================================================
