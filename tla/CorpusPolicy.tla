---------------------------- MODULE CorpusPolicy ----------------------------
(***************************************************************************)
(* The licence policy of the paperseed corpus: which actions a licence     *)
(* permits (policy.rs), and which licence an imported or ingested paper    *)
(* ends up with (app.rs, sources.rs).  A licence is what parse_license     *)
(* returns; the spellings it accepts are abstracted.                       *)
(***************************************************************************)

(* models.rs: the License enumeration.                                     *)
License == {"Cc0", "CcBy", "CcBySa", "PublicDomain", "OpenGovernment",
            "UserOwnedPrivate", "Unknown", "Restricted"}

(* A licence option that the caller or the metadata does not give.         *)
NoLicense == "NoLicense"

LicenseOption == License \cup {NoLicense}

Redistributable == {"Cc0", "CcBy", "CcBySa", "PublicDomain", "OpenGovernment"}

(* Mistake: seeding is allowed wherever storing is.                        *)
AllowedLoosely(action, license) ==
  \/ action \in {"StorePrivate", "CacheOpenAccess", "SeedRedistribute"}
     /\ license # "Restricted"
  \/ action = "Download" /\ license \in Redistributable

(* policy::evaluate, one disjunct per CorpusAction.                        *)
Allowed(action, license) ==
  \/ action = "StorePrivate" /\ license # "Restricted"
  \/ action = "Download" /\ license \in Redistributable
  \/ action = "CacheOpenAccess" /\ license # "Restricted"
  \/ action = "SeedRedistribute" /\ license \in Redistributable

(* Option::or                                                              *)
FirstGiven(a, b) == IF a # NoLicense THEN a ELSE b

OrPrivate(a) == IF a # NoLicense THEN a ELSE "UserOwnedPrivate"

(***************************************************************************)
(* A request names the licence the caller passes and, for an ingest, the   *)
(* one the metadata record carries.  CheckedLicense is the licence the     *)
(* StorePrivate policy is evaluated on; StoredLicense is the one the entry *)
(* holds after apply_metadata, which lets a recognised metadata licence    *)
(* replace the one that was checked.                                       *)
(***************************************************************************)
ImportLicense(req) == OrPrivate(req.license)

IngestLicense(req) == OrPrivate(FirstGiven(req.license, req.metaLicense))

CheckedLicense(req) ==
  IF req.ingest THEN IngestLicense(req) ELSE ImportLicense(req)

ApplyMetadataLicense(base, metaLicense) ==
  IF metaLicense \in {NoLicense, "Unknown"} THEN base ELSE metaLicense

StoredLicense(req) ==
  IF req.ingest
  THEN ApplyMetadataLicense(IngestLicense(req), req.metaLicense)
  ELSE ImportLicense(req)

=============================================================================
