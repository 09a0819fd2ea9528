---------------------------- MODULE MCBlockDevice ----------------------------
(***************************************************************************)
(* A ramdisk of two blocks, as in main.c, and numbers of three bits.  The  *)
(* extents are one block, two that reach past the end, and two that wrap.  *)
(* A page has two blocks.  Of the pagers, one covers both blocks, one only *)
(* the last, so that its page 0 is not complete, and one is refused.  Page *)
(* 1 is past the end, the addresses of page 3 wrap, and page 4 times two   *)
(* wraps to block 0.                                                       *)
(***************************************************************************)
EXTENDS BlockDevice

MCExtents == {<< 0, 1 >>, << 1, 2 >>, << 7, 2 >>}
MCPagerExtents == {<< 0, 2 >>, << 1, 1 >>, << 1, 2 >>}

=============================================================================
