--------------------------- MODULE ImageValidation ---------------------------
(***************************************************************************)
(* The check installService makes on an unpacked image before it installs *)
(* it (src/launcher/image.go): validateUnpackedImage reads manifest.json  *)
(* (getImageManifest) and runs validateDigest on the image config, on the *)
(* aos service config when the manifest names one, and on the first      *)
(* layer; validateDigest opens the blob named by the digest and feeds it, *)
(* one buffer at a time, to the digest's verifier.  prepareService then   *)
(* reads the manifest again (getImageParts) and takes the image config    *)
(* and the first layer, the rootfs, from it.                              *)
(*                                                                         *)
(* A digest is a model value.  What the unpacked directory holds for it   *)
(* is its blob: absent, intact (its content hashes to the digest), or     *)
(* corrupt (it does not).  A digest string may also be malformed          *)
(* (digest.Validate fails).  Every blob takes ChunksPerBlob reads.        *)
(***************************************************************************)
EXTENDS Naturals, Sequences

CONSTANTS
    Digests,        \* the digests a manifest may name
    NoService,      \* manifest.AosService == nil
    MaxLayers,      \* bound on the layers of a manifest
    ChunksPerBlob,  \* reads of the 1 MiB buffer a blob takes
    ReadMayFail     \* file.Read may return an error other than io.EOF

ASSUME NoService \notin Digests

VARIABLES
    manifestJSON, \* manifest.json: "missing", "badjson" or "ok"
    manifest,   \* what json.Unmarshal makes of an "ok" manifest.json
    blob,       \* what the unpacked directory holds for each digest
    wellFormed, \* the digests that digest.Validate accepts
    pc,         \* where validateUnpackedImage and getImageParts are
    current,    \* the digest validateDigest is checking
    after,      \* where validateUnpackedImage goes when it returns nil
    read,       \* buffers of the blob the verifier was given
    result,     \* "none", or what validateUnpackedImage returned
    parts       \* what getImageParts returned to prepareService

vars == <<manifestJSON, manifest, blob, wellFormed, pc, current, after, read, result, parts>>

Manifests ==
    [config : Digests, aosService : Digests \cup {NoService},
     layers : UNION {[1..n -> Digests] : n \in 0..MaxLayers}]

NoParts == [imageConfig |-> NoService, rootfs |-> NoService, layersDigest |-> <<>>]

\* An intact blob under a well-formed digest: what the check is to ensure.
Intact(d) == d \in wellFormed /\ blob[d] = "intact"

-----------------------------------------------------------------------------

\* getImageManifest: ReadFile and json.Unmarshal, either of which fails.
GetImageManifest ==
    /\ pc = "manifest"
    /\ IF manifestJSON # "ok"
       THEN pc' = "error" /\ result' = "error"
       ELSE pc' = "config" /\ UNCHANGED result
    /\ UNCHANGED <<manifestJSON, manifest, blob, wellFormed, current, after, read, parts>>

\* validateDigest up to its loop: digest.Validate, then os.Open of
\* blobs/<algorithm>/<hex>; the loop starts with a fresh verifier.
StartDigest(d, next) ==
    IF d \notin wellFormed \/ blob[d] = "absent"
    THEN pc' = "error" /\ result' = "error" /\ UNCHANGED <<current, after, read>>
    ELSE pc' = "read" /\ current' = d /\ after' = next /\ read' = 0
         /\ UNCHANGED result

\* validateUnpackedImage: the image config's digest.
ValidateConfig ==
    /\ pc = "config"
    /\ StartDigest(manifest.config, "aosService")
    /\ UNCHANGED <<manifestJSON, manifest, blob, wellFormed, parts>>

\* The aos service config, when the manifest has one.
ValidateAosService ==
    /\ pc = "aosService"
    /\ IF manifest.aosService = NoService
       THEN pc' = "layers" /\ UNCHANGED <<current, after, read, result>>
       ELSE StartDigest(manifest.aosService, "layers")
    /\ UNCHANGED <<manifestJSON, manifest, blob, wellFormed, parts>>

\* "no layers in image", else the first layer, the rootfs.
ValidateLayers ==
    /\ pc = "layers"
    /\ IF manifest.layers = <<>>
       THEN pc' = "error" /\ result' = "error" /\ UNCHANGED <<current, after, read>>
       ELSE StartDigest(manifest.layers[1], "valid")
    /\ UNCHANGED <<manifestJSON, manifest, blob, wellFormed, parts>>

\* What one file.Read returns: a buffer while the blob has more, io.EOF at
\* its end, or an I/O error.
ReadOutcomes ==
    (IF read < ChunksPerBlob THEN {"buffer"} ELSE {"eof"})
    \cup (IF ReadMayFail THEN {"error"} ELSE {})

\* validateDigest returns: nil goes on to the next digest, or out of
\* validateUnpackedImage after the rootfs layer.
ReturnDigest(ok) ==
    /\ pc' = CASE ~ok            -> "error"
               [] after = "valid" -> "parts"
               [] OTHER           -> after
    /\ result' = CASE ~ok            -> "error"
                   [] after = "valid" -> "nil"
                   [] OTHER           -> result

\* The loop of validateDigest without the verifier.Verified() check.
ReadBlobUnverified ==
    /\ pc = "read"
    /\ \E r \in ReadOutcomes :
          IF r = "buffer"
          THEN read' = read + 1 /\ UNCHANGED <<pc, result>>
          ELSE ReturnDigest(TRUE) /\ UNCHANGED read
    /\ UNCHANGED <<manifestJSON, manifest, blob, wellFormed, current, after, parts>>

\* One file.Read of the loop: a buffer goes to the verifier; io.EOF ends
\* the loop and verifier.Verified() decides; any other error returns err,
\* which still holds the nil of os.Open.
ReadBlob ==
    /\ pc = "read"
    /\ \E r \in ReadOutcomes :
          IF r = "buffer"
          THEN read' = read + 1 /\ UNCHANGED <<pc, result>>
          ELSE /\ ReturnDigest(r = "error" \/ blob[current] = "intact")
               /\ UNCHANGED read
    /\ UNCHANGED <<manifestJSON, manifest, blob, wellFormed, current, after, parts>>

\* A getImageParts that wants a layer besides the rootfs.
GetImagePartsTwoLayers ==
    /\ pc = "parts"
    /\ IF Len(manifest.layers) < 2
       THEN pc' = "error" /\ UNCHANGED parts
       ELSE /\ pc' = "prepared"
            /\ parts' = [imageConfig  |-> manifest.config,
                         rootfs       |-> manifest.layers[1],
                         layersDigest |-> Tail(manifest.layers)]
    /\ UNCHANGED <<manifestJSON, manifest, blob, wellFormed, current, after, read, result>>

\* getImageParts of prepareService, on the directory that was validated:
\* the manifest is read again, and its first layer is the rootfs.
GetImageParts ==
    /\ pc = "parts"
    /\ IF manifest.layers = <<>>
       THEN pc' = "error" /\ UNCHANGED parts
       ELSE /\ pc' = "prepared"
            /\ parts' = [imageConfig  |-> manifest.config,
                         rootfs       |-> manifest.layers[1],
                         layersDigest |-> Tail(manifest.layers)]
    /\ UNCHANGED <<manifestJSON, manifest, blob, wellFormed, current, after, read, result>>

-----------------------------------------------------------------------------

\* Any image downloadAndUnpackImage may leave in the directory.
Init ==
    /\ manifestJSON \in {"missing", "badjson", "ok"}
    /\ manifest \in Manifests
    /\ blob \in [Digests -> {"absent", "intact", "corrupt"}]
    /\ wellFormed \in SUBSET Digests
    /\ pc = "manifest"
    /\ current = NoService
    /\ after = "config"
    /\ read = 0
    /\ result = "none"
    /\ parts = NoParts

Next ==
    \/ GetImageManifest \/ ValidateConfig \/ ValidateAosService
    \/ ValidateLayers \/ ReadBlob \/ GetImageParts

\* The check runs to its end: an image that fails it is not installed, and
\* the run stops in "error" or "prepared".
Spec == Init /\ [][Next]_vars /\ WF_vars(Next)

-----------------------------------------------------------------------------
(* Properties.                                                              *)

\* What prepareService unpacks and turns into the service's config.json
\* (the rootfs layer and the image config getImageParts returns), and the
\* aos service config the manifest names, are intact blobs: validateDigest
\* read each of them to the end and its verifier accepted what it read.
PreparedImageIntact ==
    pc = "prepared" =>
        /\ Intact(parts.imageConfig) /\ Intact(parts.rootfs)
        /\ manifest.aosService # NoService => Intact(manifest.aosService)

\* An image whose manifest reads and names a rootfs layer, and whose image
\* config, aos service config and rootfs are intact, is never refused:
\* neither validateUnpackedImage nor the getImageParts of prepareService
\* returns an error for it, and the check runs to its end.
IntactImageAccepted ==
    <>(pc \in {"prepared", "error"}) /\
    [](pc = "error" =>
        ~ /\ manifestJSON = "ok"
          /\ manifest.layers # <<>>
          /\ Intact(manifest.config) /\ Intact(manifest.layers[1])
          /\ manifest.aosService # NoService => Intact(manifest.aosService))

=============================================================================
