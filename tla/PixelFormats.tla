--------------------------- MODULE PixelFormats ---------------------------
(***************************************************************************)
(* buffer_format_utils.c: the formats of wlroots (DRM codes) and those of  *)
(* Android's AHardwareBuffer.  ARGB and XRGB have no counterpart of their  *)
(* own byte order and share that of ABGR and XBGR.                         *)
(***************************************************************************)

Unknown == "0"

AndroidOf ==
  [ABGR8888      |-> "R8G8B8A8_UNORM",     XBGR8888    |-> "R8G8B8X8_UNORM",
   ARGB8888      |-> "R8G8B8A8_UNORM",     XRGB8888    |-> "R8G8B8X8_UNORM",
   BGR888        |-> "R8G8B8_UNORM",       RGB565      |-> "R5G6B5_UNORM",
   ABGR16161616F |-> "R16G16B16A16_FLOAT", ABGR2101010 |-> "R10G10B10A2_UNORM"]

DrmOf ==
  [R8G8B8A8_UNORM     |-> "ABGR8888",      R8G8B8X8_UNORM    |-> "XBGR8888",
   R8G8B8_UNORM       |-> "BGR888",        R5G6B5_UNORM      |-> "RGB565",
   R16G16B16A16_FLOAT |-> "ABGR16161616F", R10G10B10A2_UNORM |-> "ABGR2101010"]

DrmFormats == DOMAIN AndroidOf
AndroidFormats == DOMAIN DrmOf

drm_to_android_format(f) == IF f \in DrmFormats THEN AndroidOf[f] ELSE Unknown
android_to_drm_format(f) == IF f \in AndroidFormats THEN DrmOf[f] ELSE Unknown

(* The formats with an A in their name (drm_fourcc.h) *)
HasAlpha(drm) ==
  drm \in {"ABGR8888", "ARGB8888", "ABGR16161616F", "ABGR2101010", "RGBA1010102"}

(* Bytes of a pixel (Android's) *)
BytesOf(android) ==
  IF android = "R16G16B16A16_FLOAT" THEN 8
  ELSE IF android = "R8G8B8_UNORM" THEN 3
  ELSE IF android = "R5G6B5_UNORM" THEN 2
  ELSE 4
=============================================================================
