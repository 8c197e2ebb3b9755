----------------------------- MODULE PngLayout -----------------------------
(***************************************************************************)
(* The destination buffer of the libpng example: the rows of the image,    *)
(* one after the other, and behind them an array of pointers to them that  *)
(* png_read_image is given.  decode_png (og_lfi.rs) and                    *)
(* decode_png_preallocated (unsafe_ffi.rs) lay it out the same way.        *)
(***************************************************************************)
EXTENDS Integers

CONSTANT
    PtrSize         \* size_of and align_of *mut u8: 8

ASSUME PtrSizeAssumption == PtrSize \in Nat \ {0}

\* alloc_size: what decode_png asks malloc for, or requires of a given buffer.
AllocSize(rows, cols) == rows * cols + rows * PtrSize

\* Mutant: the potential alignment bytes are forgotten.
BufferSizeUnpadded(rows, cols) == AllocSize(rows, cols)

\* get_decompressed_image_buffer_size, from which the benchmark allocates.
BufferSize(rows, cols) == AllocSize(rows, cols) + PtrSize

\* align_ptr.  A pointer that is aligned already moves by a whole PtrSize.
AlignPtr(p) == p + (PtrSize - (p % PtrSize))

\* row_pointers_arr
RowArray(dst, rows, cols) == AlignPtr(dst + rows * cols)

RowArrayEnd(dst, rows, cols) == RowArray(dst, rows, cols) + rows * PtrSize

\* What the pointer array holds for row i, the first of which is 0.
RowPointer(dst, cols, i) == dst + i * cols

=============================================================================
