\* A merge is declared over a notice that no review ran.
SPECIFICATION Spec
CONSTANTS
  Retention = 2
  Recent = 1
  Reuse = FALSE
  MaxBuilds = 3
  MaxReleases = 1
  MaxPrs = 1
  MaxHeads = 2
  MaxTalk = 1
  MaxRelabels = 3
  Issues = {"s1", "s2"}
  Required = {"Validate", "Detect Changes", "review-attestation", "Tests"}
  Waits = TRUE
  Copies = FALSE
  MaxPush = 4
  Branches <- MCBranches
  Checks <- MCChecks
  Contexts = {"Tests"}
  Others = {"admins", "reviews"}
  None <- MCNone
  Labels <- MCLabels
  Revisions <- MCRevisions
  Outputs <- MCOutputs
  Listing <- MCListing
  Directory <- MCDirectory
  Dated = {"homepage"}
  Preserving = {"platform-json"}
  Midway = {"oidc"}
  Refused <- MCRefused
  Crashing <- MCCrashing
  MaxEdits = 2
  MaxFaults = 1
CHECK_DEADLOCK FALSE
INVARIANT DeclaredIsNotReviewed
