SPECIFICATION FairSpec
CONSTANTS
  MAX_DELTAFRAME_RETRIES = 2
  MAX_TRANSIENT_RETRIES = 2
  TRANSIENT_RETRY_INITIAL_DELAY = 1
  TRANSIENT_RETRY_MAX_DELAY = 3
  KeyframeInterval = 2
  SyncFragments = {0, 1}
  SignupFragment = 0
  LastFragment = 2
  MaxCancels = 2
INVARIANTS TypeOK PolledOncePerInterval RequestBudget
PROPERTIES FeedSpec GivesUpOnlyWhenGone StreamEnds
