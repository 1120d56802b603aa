---------------------------- MODULE ImageHeader ----------------------------
(***************************************************************************)
(* The STM32 image header, which the boot ROM reads, as the two tools of    *)
(* the repository write it: stm32_header.py for the loader and stm32image.c *)
(* for the bare-metal program.  An image is the layout of its header, the   *)
(* values of the fields and the payload behind it.  Values that are words   *)
(* of zeros or flags are named; the payload is a sequence of bytes.         *)
(***************************************************************************)
EXTENDS Naturals, Sequences, SequencesExt

Prefix(signature) ==
  << <<"magic_number", 4>>, <<"image_signature", signature>>, <<"image_checksum", 4>>,
     <<"header_version", 4>>, <<"image_length", 4>>, <<"image_entry_point", 4>>,
     <<"reserved1", 4>>, <<"load_address", 4>>, <<"reserved2", 4>>, <<"version_number", 4>> >>

Extension(pad) ==
  << <<"extension_header_type", 4>>, <<"extension_header_length", 4>>,
     <<"extension_padding", pad>> >>

stm32_header_v1 ==
  Prefix(64) \o << <<"option_flags", 4>>, <<"ecdsa_algorithm", 4>>, <<"ecdsa_public_key", 64>>,
                   <<"padding", 83>>, <<"binary_type", 1>> >>

stm32_header_v2 ==
  Prefix(64) \o << <<"extension_flags", 4>>, <<"extension_headers_length", 4>>,
                   <<"binary_type", 4>>, <<"padding", 16>> >> \o Extension(376)

stm32_header_v23 ==
  Prefix(96) \o << <<"extension_flags", 4>>, <<"extension_headers_length", 4>>,
                   <<"binary_type", 4>>, <<"padding", 8>>, <<"non_secure_payload_length", 4>>,
                   <<"non_secure_payload_hash", 4>> >> \o Extension(408)

Size(layout) == FoldLeft(LAMBDA n, f : n + f[2], 0, layout)
Fields(layout) == {layout[i][1] : i \in DOMAIN layout}

\* What the caller of a tool gives.
Arguments == [major : 1 .. 3, minor : {0, 2, 3}]
File(layout, fields, payload) ==
  [layout |-> layout, payload |-> payload,
   field |-> [f \in Fields(layout) |-> IF f \in DOMAIN fields THEN fields[f] ELSE 0]]

-----------------------------------------------------------------------------
(* The checksum: one tool lets a word wrap at every byte, the other cuts    *)
(* the sum down to a word at the end.  wrap is 2^32.                        *)
stm32image_checksum(bytes, wrap) == FoldLeft(LAMBDA c, b : (c + b) % wrap, 0, bytes)
_stm32image_checksum(bytes, wrap) == FoldLeft(LAMBDA c, b : c + b, 0, bytes) % wrap

\* The fields both tools fill in the same way, whatever the version.
Filled(a, payload, checksum) ==
  [magic_number |-> "STM2", header_version |-> <<0, a.minor, a.major, 0>>,
   image_length |-> Len(payload), image_checksum |-> checksum,
   load_address |-> "load", image_entry_point |-> "entry", binary_type |-> 16]

Padded(size) ==
  [extension_flags |-> "bit 31", extension_headers_length |-> size,
   extension_header_type |-> "ST FF FF", extension_header_length |-> size]

Unsigned == [option_flags |-> 1, ecdsa_algorithm |-> 1]

-----------------------------------------------------------------------------
\* stm32image.c: minor version 3 decides before the major version does.
HeaderOf(a) ==
  CASE a.minor = 3 -> stm32_header_v23
    [] a.minor # 3 /\ a.major = 1 -> stm32_header_v1
    [] a.minor # 3 /\ a.major = 2 -> stm32_header_v2
    [] OTHER -> <<>>

stm32image_set_header(a, payload, checksum) ==
  (CASE a.minor = 3 -> Padded(416)
     [] a.minor # 3 /\ a.major = 1 -> Unsigned
     [] a.minor # 3 /\ a.major = 2 -> Padded(384))
  @@ Filled(a, payload, checksum)

\* The file is the header in zeros and the payload; the length and the sum are
\* those of the file behind the header.
stm32image_create_header_file(a, payload, wrap) ==
  LET layout == HeaderOf(a)
      file == [i \in 1 .. Size(layout) |-> 0] \o payload
      behind == SubSeq(file, Size(layout) + 1, Len(file))
  IN File(layout, stm32image_set_header(a, behind, stm32image_checksum(behind, wrap)), behind)

\* stm32_header.py: generate(), for major version 1 and for all others.
generate(a, payload, wrap) ==
  LET filled == Filled(a, payload, _stm32image_checksum(payload, wrap))
  IN IF a.major = 1 THEN File(stm32_header_v1, Unsigned @@ filled, payload)
     ELSE File(stm32_header_v2, Padded(512 - 128) @@ filled, payload)

-----------------------------------------------------------------------------
Payloads == UNION {[1 .. n -> {0, 1, 3}] : n \in 0 .. 3}

(* The sizes the boot ROM goes by: where the payload starts, and how long   *)
(* the header behind the base header says that it is.                       *)
ASSUME SizesAgree ==
  /\ Size(stm32_header_v1) = 256 /\ Size(stm32_header_v2) = 512 /\ Size(stm32_header_v23) = 576
  /\ Padded(384).extension_headers_length = Size(Extension(376))
  /\ Padded(416).extension_headers_length = Size(Extension(408))

(* The two tools write the same file for the same arguments wherever both   *)
(* know the version, also when the sum wraps; the sum and the length leave  *)
(* the header out.                                                          *)
ASSUME ToolsAgree ==
  \A a \in Arguments, p \in Payloads, wrap \in {4, 16} :
    a.minor # 3 /\ a.major \in {1, 2} =>
      stm32image_create_header_file(a, p, wrap) = generate(a, p, wrap)
=============================================================================
