SPECIFICATION Spec
CONSTANTS Tracks <- MCTracks NoTrack = NoTrack MaxDeltas <- MCSectors
          Jobs <- MCJobs Places <- MCPlaces
          Spans = {2, 5} MaxFaults = 2
INVARIANTS TypeOK ReadsWhole FileMatchesStatus EmuHoldsBest CleanTrackRead StatsTell
PROPERTIES ImplementsBestReads FollowsDeltas Finishes
CHECK_DEADLOCK FALSE
