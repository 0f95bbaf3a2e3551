--------------------------- MODULE CameraIdentity ---------------------------
(***************************************************************************)
(* Which camera a configuration means: the selector of cvforwin.json       *)
(* (validate_camera, config.cpp), the descriptors of the attached devices  *)
(* (enumerate_devices, uvc_backend.cpp) and the unique match of the two    *)
(* (resolve_identity, camera_backend.cpp).                                 *)
(*                                                                         *)
(* "" is an absent text.  A vendor or product id stands for its spelling:  *)
(* four hexadecimal digits in lower or in upper case, or something else.   *)
(***************************************************************************)
Spellings == {"", "046d", "046D", "46"}

(* canonicalize_hex4 and hex4_lower: "" where there are no four digits. *)
Hex4(text) == IF text \in {"046d", "046D"} THEN "046d" ELSE ""

(* canonical_vid_pid leaves other texts as they are. *)
CanonicalVidPid(text) == IF Hex4(text) = "" THEN text ELSE Hex4(text)

Selectors == [device_path : {"", "left"}, vendor_id : Spellings,
              product_id : {"", "046D"}, friendly_name : {"", "line camera"}]

(* validate_camera, for the release build, whose one backend is uvc. *)
SelectorAccepted(s) ==
  /\ \A id \in {s.vendor_id, s.product_id} : id # "" => Hex4(id) # ""
  /\ s.device_path # "" \/ (s.vendor_id # "" /\ s.product_id # "")

LoadedSelector(s) ==
  [s EXCEPT !.vendor_id = Hex4(@), !.product_id = Hex4(@)]

-------------------------------------------------------------------------------
(* The devices: two of one model, one whose link names no product, and one  *)
(* that has no symbolic link.                                               *)
Device(link, vendor, product) ==
  [link |-> link, vendor |-> vendor, product |-> product, name |-> "line camera"]

Devices == {Device("left", "046D", "046d"), Device("right", "046d", "046d"),
            Device("other", "46", ""), Device("", "046d", "046d")}

Descriptor(device) ==
  [device_path |-> device.link, vendor_id |-> Hex4(device.vendor),
   product_id |-> Hex4(device.product), friendly_name |-> device.name]

(* enumerate_devices: a device without a symbolic link is no candidate. *)
Enumerated(attached) == {Descriptor(device) : device \in {d \in attached : d.link # ""}}

Matches(descriptor, selector) ==
  /\ selector.device_path \in {"", descriptor.device_path}
  /\ selector.vendor_id # "" =>
       CanonicalVidPid(selector.vendor_id) = CanonicalVidPid(descriptor.vendor_id)
  /\ selector.product_id # "" =>
       CanonicalVidPid(selector.product_id) = CanonicalVidPid(descriptor.product_id)
  /\ selector.friendly_name \in {"", descriptor.friendly_name}

EmptySelector == [device_path |-> "", vendor_id |-> "", product_id |-> "",
                  friendly_name |-> ""]

NoDevice == {}

(* Mutant: the first match is taken, however many there are. *)
ResolveIdentityFirst(candidates, selector) ==
  IF selector = EmptySelector THEN NoDevice
  ELSE LET matches == {d \in candidates : Matches(d, selector)}
       IN IF matches = {} THEN NoDevice ELSE {CHOOSE d \in matches : TRUE}

(* resolve_identity: the match if there is exactly one, as a singleton. *)
ResolveIdentity(candidates, selector) ==
  IF selector = EmptySelector THEN NoDevice
  ELSE LET matches == {d \in candidates : Matches(d, selector)}
       IN IF \E d \in matches : matches = {d} THEN matches ELSE NoDevice
===============================================================================
