--------------------------- MODULE UsbDescriptors ---------------------------
(***************************************************************************)
(* What the card reader says of itself (usb_msc.c, "descriptors"), byte for *)
(* byte where a host acts upon the byte, and which request of a descriptor  *)
(* gets which (usb_device.c).  The characters of a string are not told      *)
(* apart.                                                                   *)
(***************************************************************************)
EXTENDS Integers, Sequences

LOBYTE(x) == x % 256
HIBYTE(x) == (x \div 256) % 256

USB_DESC_TYPE ==
  [DEVICE |-> 1, CONFIGURATION |-> 2, STR |-> 3, INTERFACE |-> 4, ENDPOINT |-> 5,
   DEVICE_QUALIFIER |-> 6, OTHER_SPEED_CONFIGURATION |-> 7]

USBD_IDX == [LANGID |-> 0, MFC |-> 1, PRODUCT |-> 2, SERIAL |-> 3, CONFIG |-> 4, INTERFACE |-> 5]

USBD_EP_TYPE == [CTRL |-> 0, ISOC |-> 1, BULK |-> 2, INTR |-> 3]

USBD_MAX_NUM_CONFIGURATION == 1
USBD_MAX_NUM_INTERFACES == 1
USB_MAX_EP0_SIZE == 64
MSC_EP_IN == 129
MSC_EP_OUT == 1
MSC_MPS_HS == 512

-----------------------------------------------------------------------------
(* usb_msc.c.                                                               *)

USBD_VID == 1155
USBD_PID == 22304

msc_device_desc ==
  <<18, USB_DESC_TYPE.DEVICE, 0, 2, 0, 0, 0, USB_MAX_EP0_SIZE,
    LOBYTE(USBD_VID), HIBYTE(USBD_VID), LOBYTE(USBD_PID), HIBYTE(USBD_PID), 0, 2,
    USBD_IDX.MFC, USBD_IDX.PRODUCT, USBD_IDX.SERIAL, USBD_MAX_NUM_CONFIGURATION>>

msc_config_desc ==
  LET endpoint(ep) == <<7, USB_DESC_TYPE.ENDPOINT, ep, USBD_EP_TYPE.BULK, LOBYTE(MSC_MPS_HS), HIBYTE(MSC_MPS_HS), 0>>
  IN <<9, USB_DESC_TYPE.CONFIGURATION, 32, 0, 1, 1, 0, 192, 50>>
       \o <<9, USB_DESC_TYPE.INTERFACE, 0, 0, 2, 8, 6, 80, 0>>
       \o endpoint(MSC_EP_IN) \o endpoint(MSC_EP_OUT)

msc_lang_id_desc == <<4, USB_DESC_TYPE.STR, 9, 4>>
msc_qualifier_desc == <<10, USB_DESC_TYPE.DEVICE_QUALIFIER, 0, 2, 0, 0, 0, 64, 1, 0>>

(* Two bytes for each character that fits into the 64 of the buffer.        *)
msc_string_desc(chars) ==
  LET n == IF chars < 30 THEN 2 + 2 * chars ELSE 62
  IN <<n, USB_DESC_TYPE.STR>> \o [i \in 1 .. n - 2 |-> 0]

(* "STMicroelectronics", "MP257 FSBL SD card", the serial number, "MSC      *)
(* Config", "MSC Interface"; a string of the user is "MSC".                 *)
msc_desc ==
  [mfc |-> msc_string_desc(18), product |-> msc_string_desc(18), serial |-> msc_string_desc(24),
   configuration |-> msc_string_desc(10), interface |-> msc_string_desc(13), usr |-> msc_string_desc(3),
   lang_id |-> msc_lang_id_desc, device |-> msc_device_desc, config |-> msc_config_desc,
   device_qualifier |-> msc_qualifier_desc, other_speed_config |-> <<>>]

-----------------------------------------------------------------------------
(* usb_core_get_desc(): the descriptor a value asks for, <<>> for none; one *)
(* of the speed that is not in use is there for a platform that has it.     *)

StringDescriptor(desc_idx) ==
  CASE desc_idx = USBD_IDX.LANGID -> msc_desc.lang_id
    [] desc_idx = USBD_IDX.MFC -> msc_desc.mfc
    [] desc_idx = USBD_IDX.PRODUCT -> msc_desc.product
    [] desc_idx = USBD_IDX.SERIAL -> msc_desc.serial
    [] desc_idx = USBD_IDX.CONFIG -> msc_desc.configuration
    [] desc_idx = USBD_IDX.INTERFACE -> msc_desc.interface
    [] OTHER -> msc_desc.usr

Descriptor(value) ==
  LET desc_type == HIBYTE(value)
  IN CASE desc_type = USB_DESC_TYPE.DEVICE -> msc_desc.device
       [] desc_type = USB_DESC_TYPE.CONFIGURATION -> msc_desc.config
       [] desc_type = USB_DESC_TYPE.STR -> StringDescriptor(LOBYTE(value))
       [] desc_type = USB_DESC_TYPE.DEVICE_QUALIFIER -> msc_desc.device_qualifier
       [] desc_type = USB_DESC_TYPE.OTHER_SPEED_CONFIGURATION -> msc_desc.other_speed_config
       [] OTHER -> <<>>

-----------------------------------------------------------------------------
(* What a host makes of the bytes.                                          *)

(* A configuration is as long as its bytes 2 and 3 say, any other           *)
(* descriptor as its first byte.                                            *)
Announced(d) == IF d[2] = USB_DESC_TYPE.CONFIGURATION THEN d[3] + 256 * d[4] ELSE d[1]

(* The endpoints that follow the interface, as many as it says.             *)
Told ==
  LET d == msc_config_desc
      interface == 1 + d[1]
      endpoint(k) == interface + d[interface] + 7 * k
  IN {[addr |-> d[i + 2], type |-> d[i + 3] % 4, maxpacket |-> d[i + 4] + 256 * d[i + 5]] :
        i \in {endpoint(k) : k \in 0 .. d[interface + 4] - 1}}
=============================================================================
